---- MODULE Spec2Model ----
(***************************************************************************)
(* Canonkey: streaming tempo (BpmTracker) and key (KeyDetector) pipelines, *)
(* and the single-producer/single-consumer RingBuffer between capture and  *)
(* analysis.                                                               *)
(*                                                                         *)
(* Numbers.  The source computes in float/double; the model computes in    *)
(* fixed point: key scores and confidences in units of 1/ScoreScale,       *)
(* chroma in units of 1/ChromaScale, wall-clock time in milliseconds.      *)
(* Float guards of the form x <= 1e-6 or x <= 1e-12 on a non-negative      *)
(* quantity become x <= 0 (one fixed-point unit is far above 1e-6).        *)
(*                                                                         *)
(* Audio.  A sample is the index of the sound that is playing at that      *)
(* instant (0 = digital silence).  The FFT and peak picking of a frame are *)
(* abstracted to their result: the spectral peaks of a frame are the peaks *)
(* of the sounds it contains, weighted by how many of its samples carry    *)
(* each sound; an all-zero frame has no peak.                              *)
(***************************************************************************)
EXTENDS Integers, Sequences, FiniteSets, TLC

VARIABLES
    kd,        \* the KeyDetector object (fields as in KeyDetector.h)
    now,       \* juce::Time::getMillisecondCounterHiRes(), in ms
    kdHist,    \* history: what an observer of the detector has seen
    fed,       \* history: samples handed to processMono since construction
    ticks,     \* history: how often the clock has advanced
    bp,        \* the BpmTracker object (fields as in BpmTracker.h)
    bpHist,    \* history: what an observer of the tempo tracker has seen
    twin,      \* a second pair of pipelines, for the offline run of a stream
    tape,      \* history: the blocks of a run and what was published on them
    race,      \* the threads inside processMono and reset of one tracker
    ring,      \* the RingBuffer and its producer and consumer threads
    app,       \* MainComponent: capture, pipelines and their lifetimes
    snap,      \* the published results, their writer and a reader
    la,        \* the LiveAnalyzer framer
    io         \* history: the latest call, its arguments and its return value

vars == <<kd, now, kdHist, fed, ticks, bp, bpHist, twin, tape, race, ring,
         app, snap, la, io>>

kdVars  == <<kd, now, kdHist, ticks>>
bpVars  == <<bp, bpHist>>
appVars == <<app, snap, la, io>>
auxVars == <<twin, tape, race, ring, appVars>>

----------------------------------------------------------------------------
(* Bounds of the model *)

KdFftOrder   == 2      \* Settings::fftOrder, scaled down (source default 12)
KdHop        == 2      \* Settings::hop, scaled down (source default 2048)
ModelRate    == 1      \* samples per second of the scaled-down stream
NumSounds    == 2      \* sounds other than silence
MaxFed       == 8      \* samples fed per run of the model
ClockStartMs == 1000   \* millisecond counter when the detector is built
MaxTicks     == 2      \* clock advances per run of the model
TwoMaxFed    == 6      \* samples fed to each of two runs over one stream
ReplayMaxFed == 6      \* samples of the stream that is played twice
RaceMaxBlock == 3      \* samples per audio block while reset() may interleave
RaceMaxCalls == 2      \* audio blocks while reset() may interleave
RaceMaxResets == 2     \* clicks that reset the trackers meanwhile
RingOrder    == 2      \* log2 of RingBuffer::capacity_, scaled down (source 16)
RingWordBits == 3      \* bits of the size_t counters, scaled down (source 64)
RingMaxPush  == 3      \* numSamples of one push or pop
RingMaxOffered == 10   \* samples offered to the ring per run
AppMaxBlock  == 2      \* numSamples of one captured block
AppMaxBlocks == 3      \* captured blocks per listening session
AppQueueCap  == 4      \* capacity of monoFifo, scaled down (source 65536)
AppChunk     == 2      \* LiveAnalyzer::threadFunc chunk, scaled down (source 512)
BpFftOrder   == 1      \* log2 of BpmTracker::frameSize, scaled down (source 11)
BpHop        == 1      \* BpmTracker::hopSize, scaled down (source 512)
BpRate       == 5      \* samples per second of the tempo stream
BpMaxFed     == 16     \* samples fed to the tempo tracker per run
LiveMaxFed   == 18     \* samples captured per run of the live pipeline

----------------------------------------------------------------------------
(* Fixed-point scales *)

ScoreScale  == 10 * 100     \* 1.0 as a score, a margin or a confidence
ChromaScale == 10 * 100     \* 1.0 as a chroma component or a kernel weight
PerMille    == 10 * 100     \* 1.0 as an EMA coefficient

----------------------------------------------------------------------------
(* Small arithmetic helpers *)

Min2(a, b) == IF a < b THEN a ELSE b
Max2(a, b) == IF a > b THEN a ELSE b

\* juce::jlimit / std::clamp
jlimit(lo, hi, v) == IF v < lo THEN lo ELSE IF hi < v THEN hi ELSE v

RECURSIVE Pow2(_)
Pow2(n) == IF n <= 0 THEN 1 ELSE 2 * Pow2(n - 1)

\* floor(sqrt(x)) by bisection
RECURSIVE SqrtBisect(_, _, _)
SqrtBisect(x, lo, hi) ==
    IF hi - lo <= 1 THEN lo
    ELSE LET mid == (lo + hi) \div 2
         IN IF mid * mid <= x THEN SqrtBisect(x, mid, hi)
            ELSE SqrtBisect(x, lo, mid)

ISqrt(x) == IF x <= 0 THEN 0 ELSE SqrtBisect(x, 0, Min2(x, 46340) + 1)

\* the 12-vector <<F(0), ..., F(11)>> and the 24-vector <<F(0), ..., F(23)>>,
\* every entry computed once; entry i of a vector v is v[i + 1]
Vec12(F(_)) == <<F(0), F(1), F(2), F(3), F(4), F(5), F(6), F(7), F(8), F(9), F(10), F(11)>>
Vec24(F(_)) == Vec12(F) \o Vec12(LAMBDA i : F(i + 12))

RECURSIVE SumTo(_, _)
\* F(0) + ... + F(n)
SumTo(F(_), n) == IF n < 0 THEN 0 ELSE F(n) + SumTo(F, n - 1)

RECURSIVE SumSeq(_, _)
\* v[1] + ... + v[n]
SumSeq(v, n) == IF n <= 0 THEN 0 ELSE v[n] + SumSeq(v, n - 1)

----------------------------------------------------------------------------
(* KeyDetector: configuration (KeyDetector::Settings) *)

chromaDecaySec          == 6      \* seconds
tuningDecaySec          == 12     \* seconds
publishMinIntervalMs    == 500    \* publishMinIntervalSec * 1000.0
dwellRequiredMs         == 2500   \* dwellRequiredSec * 1000.0
marginRequired          == 80     \* 0.08 in units of 1/ScoreScale
stayBias                == 40     \* 0.04
neighborBonus           == 20     \* 0.02
transitionPenalty       == 40     \* 0.04
kernelWidthCents        == 75     \* kernelWidth 0.75 semitone
NegInf                  == -1000000000   \* the -1e9f sentinels

KdFftSize == Pow2(KdFftOrder)     \* fftSize(1 << cfg.fftOrder)

\* KS_MAJOR / KS_MINOR, in hundredths
KS_MAJOR == <<635, 223, 348, 233, 438, 409, 252, 519, 239, 366, 229, 288>>
KS_MINOR == <<633, 268, 352, 538, 260, 353, 254, 475, 398, 269, 334, 317>>

\* constructor: "normalize KS" (profile entries sum to 1.0 = PerMille)
profMaj == Vec12(LAMBDA i : (KS_MAJOR[i + 1] * PerMille) \div SumSeq(KS_MAJOR, 12))
profMin == Vec12(LAMBDA i : (KS_MINOR[i + 1] * PerMille) \div SumSeq(KS_MINOR, 12))

\* C++ % on ints (the remainder takes the sign of the dividend)
CRem(x, m) == IF x >= 0 THEN x % m ELSE -((-x) % m)

wrap12(x) == LET r == CRem(x, 12) IN IF r < 0 THEN r + 12 ELSE r
clamp01(x) == IF x < 0 THEN 0 ELSE IF x > ScoreScale THEN ScoreScale ELSE x

\* sum of a[i] * b[i] over the 12 entries
Dot12(a, b) == SumTo(LAMBDA i : a[i + 1] * b[i + 1], 11)

\* cosineSim(a, b, 12) on 12-vectors, result in 1/ScoreScale
cosineSim(a, b) ==
    LET ab == Dot12(a, b)
        aa == Dot12(a, a)
        bb == Dot12(b, b)
    IN IF aa <= 0 \/ bb <= 0 THEN 0
       ELSE (ab * ScoreScale) \div (ISqrt(aa) * ISqrt(bb))

\* cosineKernel(semitoneDelta, width): 0.5 * (1 + cos(pi * |d| / width)),
\* tabulated per 10 cents of |d| for width = 0.75 semitone, 0 from 75 cents on
cosineKernel(dCents) ==
    LET x == IF dCents < 0 THEN -dCents ELSE dCents
    IN IF x >= kernelWidthCents THEN 0
       ELSE <<1000, 957, 835, 655, 448, 250, 95, 11>>[(x \div 10) + 1]

----------------------------------------------------------------------------
(* The sounds of the model and the spectral peaks of a frame *)

Sound == 0 .. NumSounds           \* 0 is silence

\* sound s >= 1 is a triad, major for odd s and minor for even s, roots a
\* fifth apart, sound s detuned by 20 * (s - 1) cents
SoundRoot(s)  == (7 * (s - 1)) % 12
SoundThird(s) == (SoundRoot(s) + (IF s % 2 = 0 THEN 3 ELSE 4)) % 12
SoundCents(s) == 20 * (s - 1)

CountOf(frame, s) == Cardinality({i \in DOMAIN frame : frame[i] = s})

\* clamp(hopSec / decaySec, lo, hi) in 1/PerMille
EmaCoeff(hop, sr, decaySec, lo, hi) ==
    jlimit(lo, hi, (PerMille * hop) \div (sr * decaySec))

\* hzToPc of a peak of nominal pitch class pc, detuned by cents: cents
\* above C, with the tuning offset added
hzToPc(pc, cents, tuning) == (100 * pc + cents + tuning + 120000) % 1200

\* what one peak of magnitude m adds to pitch class i: its magnitude times
\* the kernel weight, over the three pitch classes around its centre
PeakAt(pc, cents, m, tuning, i) ==
    LET c      == hzToPc(pc, cents, tuning)
        center == (c + 50) \div 100
        W(off) == IF wrap12(center + off) = i
                  THEN m * cosineKernel((c - 100 * center) - 100 * off)
                  ELSE 0
    IN W(-1) + W(0) + W(1)

\* The peaks that computePeaksAndHpcp finds in the compressed spectrum of a
\* frame are root, third and fifth of every sound present, each of
\* magnitude twice the sound's share n of the frame; a frame of zeros has
\* none.  SoundAt is what the peaks of sound s add to pitch class i.
SoundAt(s, n, tuning, i) ==
    IF n = 0 THEN 0
    ELSE PeakAt(SoundRoot(s), SoundCents(s), 2 * n, tuning, i)
       + PeakAt(SoundThird(s), SoundCents(s), 2 * n, tuning, i)
       + PeakAt((SoundRoot(s) + 7) % 12, SoundCents(s), 2 * n, tuning, i)

----------------------------------------------------------------------------
(* KeyDetector *)

Zero12 == Vec12(LAMBDA i : 0)
Zero24 == Vec24(LAMBDA i : 0)

NoResult == [keyIndex |-> -1, isMinor |-> FALSE, confidence |-> 0]

\* KeyDetector::reset(newSampleRate); newSampleRate = 0 keeps the rate
KD_reset(d, newSampleRate) ==
    [d EXCEPT
        !.sr             = IF newSampleRate > 0 /\ newSampleRate # d.sr
                           THEN newSampleRate ELSE d.sr,
        !.overlap        = [i \in 1 .. d.fftSize |-> 0],
        !.overlapFill    = 0,
        !.chromaEMA      = Zero12,
        !.tuningCentsEMA = 0,
        !.instScore      = Zero24,
        !.viterbi        = Zero24,
        !.vitInit        = FALSE,
        !.vitCurrent     = -1,
        !.pendingKey     = -1,
        !.pendingSinceMs = 0,
        !.lastPublishMs  = 0,
        !.lastResult     = NoResult]

\* KeyDetector::KeyDetector(sampleRate, Settings): member initialisers, then
\* reset(sr)
KD_construct(sampleRate) ==
    KD_reset([sr             |-> IF sampleRate > 0 THEN sampleRate ELSE 44100,
              fftSize        |-> KdFftSize,
              hop            |-> KdHop,
              overlap        |-> << >>,
              overlapFill    |-> 0,
              chromaEMA      |-> Zero12,
              tuningCentsEMA |-> 0,
              instScore      |-> Zero24,
              viterbi        |-> Zero24,
              vitInit        |-> FALSE,
              vitCurrent     |-> -1,
              pendingKey     |-> -1,
              pendingSinceMs |-> 0,
              lastPublishMs  |-> 0,
              lastResult     |-> NoResult],
             IF sampleRate > 0 THEN sampleRate ELSE 44100)

\* KeyDetector::computePeaksAndHpcp
KD_computePeaksAndHpcp(d) ==
    LET cnt     == [s \in 1 .. NumSounds |-> CountOf(d.overlap, s)]
        present == {s \in 1 .. NumSounds : cnt[s] > 0}
        n       == 3 * Cardinality(present)
        sumC    == SumTo(LAMBDA s : IF s \in present THEN 3 * SoundCents(s) ELSE 0,
                         NumSounds)
        at      == EmaCoeff(d.hop, d.sr, tuningDecaySec, 10, 200)
        tuning  == IF n > 0
                   THEN ((PerMille - at) * d.tuningCentsEMA + at * (sumC \div n)) \div PerMille
                   ELSE d.tuningCentsEMA
        raw     == Vec12(LAMBDA i :
                      SumTo(LAMBDA s : IF s \in present
                                       THEN SoundAt(s, cnt[s], tuning, i) ELSE 0,
                            NumSounds))
        s2      == Dot12(raw, raw)
        norm    == ISqrt(s2)
        frameChroma == IF s2 > 0
                       THEN Vec12(LAMBDA i : (raw[i + 1] * ChromaScale) \div norm)
                       ELSE raw
        a       == EmaCoeff(d.hop, d.sr, chromaDecaySec, 20, 250)
    IN [d EXCEPT
          !.tuningCentsEMA = tuning,
          !.chromaEMA = Vec12(LAMBDA i :
                ((PerMille - a) * d.chromaEMA[i + 1] + a * frameChroma[i + 1]) \div PerMille)]

\* the chroma index that score24 pairs with template index i for state key
RotIndex(i, key) == wrap12(i - key)

\* KeyDetector::score24
KD_score24(d) ==
    LET scoreMode(tmpl, key) ==
            cosineSim(Vec12(LAMBDA i : d.chromaEMA[RotIndex(i, key) + 1]), tmpl)
    IN [d EXCEPT !.instScore =
            Vec24(LAMBDA k : IF k < 12 THEN scoreMode(profMaj, k)
                                       ELSE scoreMode(profMin, k - 12))]

\* viterbiStep: the lambda related(a, b)
related(a, b) ==
    LET minA == a >= 12
        minB == b >= 12
        pcA  == a % 12
        pcB  == b % 12
    IN \/ a = b
       \/ (~minA /\ minB /\ pcB = (pcA + 9) % 12)
       \/ (minA /\ ~minB /\ pcB = (pcA + 3) % 12)
       \/ (minA = minB /\ (pcB = (pcA + 7) % 12 \/ pcB = (pcA + 5) % 12))

\* viterbiStep: the transition term t for previous state p and state k
Transition(p, k) ==
    IF k = p THEN stayBias
    ELSE IF related(p, k) THEN neighborBonus
    ELSE -transitionPenalty

\* the transition terms, tabulated: TransitionTable[k + 1][p + 1]
TransitionTable == Vec24(LAMBDA k : Vec24(LAMBDA p : Transition(p, k)))

RECURSIVE BestPrev(_, _, _, _)
\* the inner loop over p, from p up to 23, bestPrev so far in acc
BestPrev(v, k, p, acc) ==
    IF p > 23 THEN acc
    ELSE LET cand == v[p + 1] + TransitionTable[k + 1][p + 1]
         IN BestPrev(v, k, p + 1, IF cand > acc THEN cand ELSE acc)

\* the final loop scanning with >=: the last of the tied maxima
RECURSIVE ArgMaxScan_last(_, _, _, _)
ArgMaxScan_last(v, k, best, bestVal) ==
    IF k > 23 THEN best
    ELSE IF v[k + 1] >= bestVal THEN ArgMaxScan_last(v, k + 1, k, v[k + 1])
    ELSE ArgMaxScan_last(v, k + 1, best, bestVal)

RECURSIVE ArgMaxScan(_, _, _, _)
\* the final loop: first index whose value is strictly above all before
ArgMaxScan(v, k, best, bestVal) ==
    IF k > 23 THEN best
    ELSE IF v[k + 1] > bestVal THEN ArgMaxScan(v, k + 1, k, v[k + 1])
    ELSE ArgMaxScan(v, k + 1, best, bestVal)

\* KeyDetector::viterbiStep
KD_viterbiStep(d) ==
    LET v == IF ~d.vitInit
             THEN d.instScore
             ELSE Vec24(LAMBDA k : BestPrev(d.viterbi, k, 0, NegInf) + d.instScore[k + 1])
    IN [d EXCEPT !.viterbi = v, !.vitInit = TRUE,
                 !.vitCurrent = ArgMaxScan(v, 0, -1, NegInf)]

RECURSIVE Top2Scan(_, _, _, _)
\* maybePublish: the loop that finds the leader and the runner-up of the
\* instantaneous scores, the accumulator argmax getting stayBias
Top2Scan(inst, vitCurrent, k, acc) ==
    IF k > 23 THEN acc
    ELSE LET sk == inst[k + 1] + (IF k = vitCurrent THEN stayBias ELSE 0)
         IN IF sk > acc.sBest
            THEN Top2Scan(inst, vitCurrent, k + 1,
                          [best |-> k, second |-> acc.best,
                           sBest |-> sk, sSecond |-> acc.sBest])
            ELSE IF sk > acc.sSecond
            THEN Top2Scan(inst, vitCurrent, k + 1,
                          [acc EXCEPT !.second = k, !.sSecond = sk])
            ELSE Top2Scan(inst, vitCurrent, k + 1, acc)

KD_top2(d) ==
    Top2Scan(d.instScore, d.vitCurrent, 0,
             [best |-> -1, second |-> -1, sBest |-> NegInf, sSecond |-> NegInf])

\* maybePublish: margin = (sSecond <= 1e-6f) ? 1.0f : (sBest - sSecond)
KD_margin(sBest, sSecond) ==
    IF sSecond <= 0 THEN ScoreScale ELSE sBest - sSecond

\* a dwell timer that does not restart when the leading candidate changes
KD_pendingSince_noRestart(pendingKey, best, pendingSinceMs, t) == pendingSinceMs

\* maybePublish: if (pendingKey != best) { pendingKey = best; pendingSinceMs = now; }
KD_pendingSince(pendingKey, best, pendingSinceMs, t) ==
    IF pendingKey # best THEN t ELSE pendingSinceMs

\* maybePublish: if (dwellOK && marginOK && rateOK)
KD_gatesOpen(dwellOK, marginOK, rateOK) == dwellOK /\ marginOK /\ rateOK

\* a Result that carries the state index itself as keyIndex
KD_result_stateIndex(best, margin) ==
    [keyIndex |-> best, isMinor |-> best >= 12, confidence |-> clamp01(margin)]

\* maybePublish: the Result that is stored and handed to the callback
KD_result(best, margin) ==
    [keyIndex |-> CRem(best, 12), isMinor |-> best >= 12,
     confidence |-> clamp01(margin)]

\* KeyDetector::maybePublish at clock reading t; cb is what the callback
\* receives in this call
KD_maybePublish(d, t) ==
    LET top      == KD_top2(d)
        margin   == KD_margin(top.sBest, top.sSecond)
        since    == KD_pendingSince(d.pendingKey, top.best, d.pendingSinceMs, t)
        dwellOK  == (t - since) >= dwellRequiredMs
        marginOK == margin >= marginRequired
        rateOK   == (t - d.lastPublishMs) >= publishMinIntervalMs
        d1       == [d EXCEPT !.pendingKey = top.best, !.pendingSinceMs = since]
    IN IF KD_gatesOpen(dwellOK, marginOK, rateOK)
       THEN [d  |-> [d1 EXCEPT !.lastResult = KD_result(top.best, margin),
                               !.lastPublishMs = t],
             cb |-> <<KD_result(top.best, margin)>>]
       ELSE [d |-> d1, cb |-> << >>]

\* KeyDetector::analyzeFrame up to, and without, maybePublish
KD_scoreFrame(d) == KD_viterbiStep(KD_score24(KD_computePeaksAndHpcp(d)))

----------------------------------------------------------------------------
(* History of one detector: what an observer of the analysis steps and of  *)
(* the callback has seen.  Not program state.                              *)

\* no analysis step yet
NoEvent ==
    [published |-> FALSE, cb |-> << >>, best |-> -1, sBest |-> 0, sSecond |-> 0,
     leadMs |-> 0, sincePrevMs |-> -1, stored |-> FALSE]

NoHist ==
    [leadKey        |-> -1,     \* leading candidate of the latest step
     leadSinceMs    |-> 0,      \* clock at the first step of its unbroken lead
     leadChanges    |-> 0,      \* steps at which the leading candidate changed
     pubsInLead     |-> 0,      \* results published during that lead
     pubsSinceReset |-> 0,      \* results published since construction/reset
     prevPubMs      |-> -1,     \* clock of the latest publication, -1: none
     step           |-> NoEvent, \* the latest analysis step
     last           |-> NoEvent, \* the latest publication
     cleared        |-> FALSE,   \* the latest call was a reset that found a
                                 \* published result
     keep           |-> FALSE,   \* whether the observer keeps the frames
     seen           |-> << >>,   \* the frames analysed, in order, if kept
     vitInitBefore  |-> FALSE,   \* vitInit as the latest step found it
     viterbiBefore  |-> Zero24,  \* the accumulator as the latest step found it
     silent         |-> TRUE]    \* every frame analysed so far was all-zero

\* one analysis step seen from outside: d0 is the detector before the step,
\* d the detector just before maybePublish, r what maybePublish returned, t
\* the clock
H_step(h, d0, d, r, t) ==
    LET top      == KD_top2(d)
        sameLead == h.leadKey = top.best
        since    == IF sameLead THEN h.leadSinceMs ELSE t
        inLead   == IF sameLead THEN h.pubsInLead ELSE 0
        pub      == Len(r.cb) > 0
        ev       == [published   |-> pub,
                     cb          |-> r.cb,
                     best        |-> top.best,
                     sBest       |-> top.sBest,
                     sSecond     |-> top.sSecond,
                     leadMs      |-> t - since,
                     sincePrevMs |-> IF h.prevPubMs < 0 THEN -1 ELSE t - h.prevPubMs,
                     stored      |-> r.d.lastResult # d0.lastResult
                                     \/ r.d.lastPublishMs # d0.lastPublishMs]
    IN [leadKey        |-> top.best,
        leadSinceMs    |-> since,
        leadChanges    |-> IF sameLead \/ h.leadKey = -1 THEN h.leadChanges
                           ELSE h.leadChanges + 1,
        pubsInLead     |-> IF pub THEN inLead + 1 ELSE inLead,
        pubsSinceReset |-> IF pub THEN h.pubsSinceReset + 1 ELSE h.pubsSinceReset,
        prevPubMs      |-> IF pub THEN t ELSE h.prevPubMs,
        step           |-> ev,
        last           |-> IF pub THEN ev ELSE h.last,
        cleared        |-> FALSE,
        keep           |-> h.keep,
        seen           |-> IF h.keep THEN Append(h.seen, d0.overlap) ELSE h.seen,
        vitInitBefore  |-> d0.vitInit,
        viterbiBefore  |-> d0.viterbi,
        silent         |-> h.silent /\ \A i \in DOMAIN d0.overlap : d0.overlap[i] = 0]

\* reset seen from outside: everything starts over
H_reset(h) == [NoHist EXCEPT !.cleared = h.pubsSinceReset > 0]

----------------------------------------------------------------------------
(* KeyDetector::processMono *)

\* a slide that keeps nothing of the frame: frames do not overlap
KD_slide_noOverlap(d1, d2, r, h, t) ==
    [d |-> [r.d EXCEPT !.overlapFill = 0],
     h |-> H_step(h, d1, d2, r, t)]

\* processMono after analyzeFrame: the window slides by one hop.  d1 is the
\* detector with the full frame, d2 the detector scored, r what maybePublish
\* returned
KD_slide(d1, d2, r, h, t) ==
    LET remain == d1.fftSize - d1.hop
    IN [d |-> [r.d EXCEPT
                 \* memmove(overlap.data(), overlap.data() + hop, remain)
                 !.overlap = [i \in DOMAIN d1.overlap |->
                                IF i <= remain THEN d1.overlap[i + d1.hop]
                                ELSE d1.overlap[i]],
                 !.overlapFill = remain],
        h |-> H_step(h, d1, d2, r, t)]

\* analyzeFrame's last statement: maybePublish(v)
KD_publishFrame(d1, d2, h, t) == KD_slide(d1, d2, KD_maybePublish(d2, t), h, t)

\* KeyDetector::analyzeFrame(frame) and the slide that follows it
KD_analyzeFrame(d1, h, t) == KD_publishFrame(d1, KD_scoreFrame(d1), h, t)

RECURSIVE KD_processLoop(_, _, _, _)
\* processMono: while (idx < numSamples); x is the detector with its history
KD_processLoop(x, samples, idx, t) ==
    IF idx >= Len(samples) THEN x
    ELSE
      LET need == x.d.fftSize - x.d.overlapFill
          take == Min2(need, Len(samples) - idx)
          \* memcpy(overlap.data() + overlapFill, samples + idx, take)
          d1   == [x.d EXCEPT
                     !.overlap = [i \in DOMAIN x.d.overlap |->
                                    IF i > x.d.overlapFill
                                       /\ i <= x.d.overlapFill + take
                                    THEN samples[idx + (i - x.d.overlapFill)]
                                    ELSE x.d.overlap[i]],
                     !.overlapFill = x.d.overlapFill + take]
      IN IF x.d.overlapFill + take = x.d.fftSize
         THEN KD_processLoop(KD_analyzeFrame(d1, x.h, t), samples, idx + take, t)
         ELSE KD_processLoop([d |-> d1, h |-> x.h], samples, idx + take, t)

\* KeyDetector::processMono(samples, numSamples) called at clock reading t
KD_processMono(d, h, samples, t) ==
    IF Len(samples) <= 0 THEN [d |-> d, h |-> h]
    ELSE KD_processLoop([d |-> d, h |-> h], samples, 0, t)

----------------------------------------------------------------------------
(* BpmTracker: configuration *)

numBands          == 6       \* bands of the flux
threshKPm         == 1000    \* threshK 1.0, in 1/PerMille
emaAlphaPm        == 250     \* emaAlpha 0.25, in 1/PerMille
maTenths          == 8       \* maSeconds 0.8, in tenths of a second
minBPM            == 60
maxBPM            == 200
analysisSeconds   == 10
reestimateEveryMs == 250     \* reestimateEvery 0.25 s
topPeaks          == 5
bpmHistLen        == 8

FluxUnit == 10 * 10          \* band energy that one sounding sample adds
AcfScale == 10 * 100         \* 1.0 as a normalised autocorrelation
BpmScale == 10 * 10          \* 1 BPM
ConfScale == 10 * 100        \* 1.0 as a tempo confidence

BpFrameSize == Pow2(BpFftOrder)

\* std::round(a / b) for a >= 0, b > 0
RoundDiv(a, b) == (2 * a + b) \div (2 * b)

\* the derived sizes, from envRate = sr / hopSize
BP_maLen(b)     == Max2(3, RoundDiv(maTenths * b.sr, 10 * b.hopSize))
BP_envMaxLen(b) == Max2(RoundDiv(analysisSeconds * b.sr, b.hopSize), BP_maLen(b) + 1)

\* lagToBpm, in 1/BpmScale BPM
lagToBpm(b, lag) == (60 * b.sr * BpmScale) \div (b.hopSize * lag)

\* bpmToLag(bpm), bpm in BPM
bpmToLag(b, bpm) ==
    Max2(1, RoundDiv(60 * b.sr, b.hopSize * jlimit(minBPM, maxBPM, bpm)))

\* push_back, then pop_front when longer than cap
PushCap(q, v, cap) ==
    LET q1 == Append(q, v) IN IF Len(q1) > cap THEN Tail(q1) ELSE q1

RECURSIVE InsertSorted(_, _)
\* v into the ascending sequence q
InsertSorted(q, v) ==
    IF q = << >> THEN <<v>>
    ELSE IF v <= Head(q) THEN <<v>> \o q
    ELSE <<Head(q)>> \o InsertSorted(Tail(q), v)

RECURSIVE SortAsc(_)
\* std::sort
SortAsc(q) == IF q = << >> THEN << >> ELSE InsertSorted(SortAsc(Tail(q)), Head(q))

\* the mean of the two middle values of an even-sized sorted sequence
MidMean(lo, hi) == (lo + hi) \div 2

\* BpmTracker::median
median(v) ==
    IF v = << >> THEN 0
    ELSE LET q == SortAsc(v)
             n == Len(q)
         IN IF n % 2 = 1 THEN q[(n \div 2) + 1]
            ELSE MidMean(q[n \div 2], q[(n \div 2) + 1])

\* BpmTracker::mean
mean(v) == IF v = << >> THEN 0 ELSE SumSeq(v, Len(v)) \div Len(v)

\* BpmTracker::stddev
stddev(v, m) ==
    IF Len(v) < 2 THEN 0
    ELSE ISqrt(SumTo(LAMBDA i : (v[i + 1] - m) * (v[i + 1] - m), Len(v) - 1)
               \div (Len(v) - 1))

----------------------------------------------------------------------------
(* BpmTracker *)

\* BpmTracker::BpmTracker(sampleRate)
BP_construct(sampleRate) ==
    [sr          |-> IF sampleRate > 0 THEN sampleRate ELSE 44100,
     frameSize   |-> BpFrameSize,
     hopSize     |-> BpHop,
     fifo        |-> [i \in 1 .. 4 * BpFrameSize |-> 0],
     fifoFill    |-> 0,
     prevBandMag |-> 0,        \* every band carries the same energy
     fluxRaw     |-> << >>,
     fluxMA      |-> << >>,
     onsetEnv    |-> << >>,
     emaState    |-> 0,
     lastACFTime |-> 0,
     acfBuf      |-> <<0>>,
     bpmHistory  |-> << >>,
     currentBpm  |-> 0,
     currentConf |-> 0]

\* a reset that keeps the median history and the re-estimation counter
BP_reset_keepsHistory(b) ==
    [b EXCEPT !.prevBandMag = 0,
              !.fifoFill    = 0,
              !.emaState    = 0,
              !.onsetEnv    = << >>,
              !.fluxRaw     = << >>,
              !.fluxMA      = << >>,
              !.currentBpm  = 0,
              !.currentConf = 0]

\* BpmTracker::reset
BP_reset(b) ==
    [b EXCEPT !.prevBandMag = 0,
              !.fifoFill    = 0,
              !.emaState    = 0,
              !.onsetEnv    = << >>,
              !.fluxRaw     = << >>,
              !.fluxMA      = << >>,
              !.bpmHistory  = << >>,
              !.currentBpm  = 0,
              !.currentConf = 0,
              !.lastACFTime = 0]

\* BpmTracker::computeAcf(x, minLag, maxLag, out): the new out
BP_computeAcf(x, minLag, maxLag) ==
    LET N     == Len(x)
        L     == jlimit(1, N - 1, maxLag)
        l0    == jlimit(1, L - 1, minLag)
        denom == SumTo(LAMBDA i : x[i + 1] * x[i + 1], N - 1)
    IN [k \in 1 .. (L - l0 + 1) |->
          IF denom <= 0 THEN 0
          ELSE LET lag == l0 + k - 1
               IN (SumTo(LAMBDA i : x[i + 1] * x[i + 1 + lag], N - lag - 1) * AcfScale)
                  \div denom]

\* BpmTracker::combScoreAtLag(acf, idx)
BP_combScoreAtLag(acf, idx) ==
    LET N        == Len(acf)
        valAt(i) == IF i >= 0 /\ i < N THEN acf[i + 1] ELSE 0
        i2       == IF idx >= 0 THEN idx * 2 ELSE -1
        i3       == IF idx >= 0 THEN idx * 3 ELSE -1
    IN (100 * valAt(idx) + 50 * valAt(i2) + 33 * valAt(i3)) \div 183

\* maybeComputeTempo with ">=" for ">" in isLocalMax: a flat stretch counts
\* as a local maximum
BP_isLocalMax_flat(acf, i) ==
    /\ acf[i + 1] >= acf[Max2(0, i - 1) + 1]
    /\ acf[i + 1] >= acf[Min2(Len(acf) - 1, i + 1) + 1]

\* maybeComputeTempo: isLocalMax(i), i from 0
BP_isLocalMax(acf, i) ==
    /\ acf[i + 1] > acf[Max2(0, i - 1) + 1]
    /\ acf[i + 1] >= acf[Min2(Len(acf) - 1, i + 1) + 1]

RECURSIVE BP_insertPeak(_, _)
\* pk into peaks, which are sorted by falling val
BP_insertPeak(peaks, pk) ==
    IF peaks = << >> THEN <<pk>>
    ELSE IF pk.val > Head(peaks).val THEN <<pk>> \o peaks
    ELSE <<Head(peaks)>> \o BP_insertPeak(Tail(peaks), pk)

RECURSIVE BP_peaks(_, _, _)
\* maybeComputeTempo: the local maxima at indices i .. size - 2, sorted by
\* falling val
BP_peaks(acf, minLag, i) ==
    IF i >= Len(acf) - 1 THEN << >>
    ELSE IF BP_isLocalMax(acf, i)
         THEN BP_insertPeak(BP_peaks(acf, minLag, i + 1),
                            [lag |-> i + minLag, val |-> acf[i + 1]])
         ELSE BP_peaks(acf, minLag, i + 1)

\* maybeComputeTempo: the score of the peak at lag L1
BP_peakScore(acf, minLag, L, L1) ==
    LET s1 == BP_combScoreAtLag(acf, L1 - minLag)
        L2 == jlimit(minLag, L, L1 * 2)
        Lh == jlimit(minLag, L, Max2(2, L1 \div 2))
        s2 == BP_combScoreAtLag(acf, L2 - minLag)
        sh == BP_combScoreAtLag(acf, Lh - minLag)
        a  == IF s2 > s1 /\ (s2 - s1) > 100 THEN (s2 * 95) \div 100 ELSE s1
    IN IF sh > a /\ (sh - a) > 80 THEN (sh * 92) \div 100 ELSE a

RECURSIVE BP_bestPeak(_, _, _, _, _)
\* maybeComputeTempo: the loop over the peaks, best so far in acc
BP_bestPeak(acf, minLag, L, peaks, acc) ==
    IF peaks = << >> THEN acc
    ELSE LET score == BP_peakScore(acf, minLag, L, Head(peaks).lag)
         IN BP_bestPeak(acf, minLag, L, Tail(peaks),
                        IF score > acc.bestScore
                        THEN [bestScore |-> score, bestLag |-> Head(peaks).lag]
                        ELSE acc)

\* maybeComputeTempo: candBpm = jlimit(minBPM, maxBPM, lagToBpm(bestLag))
BP_candBpm(b, bestLag) ==
    jlimit(minBPM * BpmScale, maxBPM * BpmScale, lagToBpm(b, bestLag))

\* the confidence ratio, without the limiting
BP_conf_unlimited(bestScore, acfMed) ==
    IF acfMed > 0 THEN ((bestScore - acfMed) * ConfScale) \div (bestScore + acfMed)
    ELSE 0

\* maybeComputeTempo: conf
BP_conf(bestScore, acfMed) ==
    IF acfMed > 0
    THEN jlimit(0, ConfScale, ((bestScore - acfMed) * ConfScale) \div (bestScore + acfMed))
    ELSE 0

\* BpmTracker::maybeComputeTempo; est tells whether an estimate was stored
BP_maybeComputeTempo(b) ==
    LET N      == Len(b.onsetEnv)
        mu     == SumSeq(b.onsetEnv, N) \div N
        x      == [i \in 1 .. N |-> Max2(0, b.onsetEnv[i] - mu)]
        minLag == bpmToLag(b, maxBPM)
        maxLag == bpmToLag(b, minBPM)
        L      == jlimit(2, Max2(2, N - 2), maxLag)
        acf    == BP_computeAcf(x, minLag, L)
        b1     == [b EXCEPT !.acfBuf = acf]
        peaks  == SubSeq(BP_peaks(acf, minLag, 1), 1,
                         Min2(topPeaks, Len(BP_peaks(acf, minLag, 1))))
        best   == BP_bestPeak(acf, minLag, L, peaks,
                              [bestScore |-> -AcfScale, bestLag |-> peaks[1].lag])
        hist   == PushCap(b.bpmHistory, BP_candBpm(b, best.bestLag), bpmHistLen)
    IN IF N < (5 * b.sr) \div (2 * b.hopSize) THEN [b |-> b, est |-> FALSE]
       ELSE IF peaks = << >> THEN [b |-> b1, est |-> FALSE]
       ELSE [b   |-> [b1 EXCEPT !.bpmHistory  = hist,
                                !.currentBpm  = median(hist),
                                !.currentConf = BP_conf(best.bestScore, median(acf))],
             est |-> TRUE]

\* BpmTracker::pushEnvelope(fluxVal)
BP_pushEnvelope(b, fluxVal) ==
    LET adaptLen == Max2(BP_maLen(b), RoundDiv(3 * b.sr, 2 * b.hopSize))
        raw      == PushCap(b.fluxRaw, fluxVal, adaptLen)
        m        == mean(raw)
        sd       == stddev(raw, m)
        thr      == m + (threshKPm * sd) \div PerMille
        ma       == PushCap(b.fluxMA, fluxVal, BP_maLen(b))
        onset    == Max2(0, Max2(0, fluxVal - thr) - mean(ma) \div 2)
        ema      == ((PerMille - emaAlphaPm) * b.emaState + emaAlphaPm * onset)
                    \div PerMille
        b1       == [b EXCEPT !.fluxRaw  = raw,
                              !.fluxMA   = ma,
                              !.emaState = ema,
                              !.onsetEnv = PushCap(b.onsetEnv, ema, BP_envMaxLen(b))]
        t        == b.lastACFTime + 1
    IN \* lastACFTime >= reestimateEvery * envRate
       IF t * b.hopSize * 1000 >= reestimateEveryMs * b.sr
       THEN BP_maybeComputeTempo([b1 EXCEPT !.lastACFTime = 0])
       ELSE [b |-> [b1 EXCEPT !.lastACFTime = t], est |-> FALSE]

\* a microphone that hums: silence has a level too
SoundLevel_hum(s) == 1

\* a sounding sample has level 1, silence level 0
SoundLevel(s) == IF s = 0 THEN 0 ELSE 1

\* processMono: window, FFT, magnitudes, log compression and band energies
\* of the frame fifo[0 .. frameSize - 1], abstracted to a band energy that
\* grows with the number of sounding samples in the frame
BP_bandMag(b) ==
    FluxUnit * SumTo(LAMBDA n : SoundLevel(b.fifo[n + 1]), b.frameSize - 1)

\* processMono: spectral flux across the bands, positive differences only
BP_flux(bandMag, prevBandMag) ==
    IF bandMag - prevBandMag > 0 THEN numBands * (bandMag - prevBandMag) ELSE 0

\* history of one tempo tracker: frames analysed and estimates stored since
\* construction or reset.  Not program state.
NoBpHist ==
    [frames |-> 0, estimates |-> 0, estimated |-> FALSE, cleared |-> FALSE,
     keep   |-> FALSE,   \* whether the observer keeps the frames
     seen   |-> << >>]   \* the frames analysed, in order, if kept

\* one frame seen from outside: frame is fifo[0 .. frameSize - 1], est tells
\* whether an estimate was stored
BH_step(h, frame, est) ==
    [frames    |-> h.frames + 1,
     estimates |-> IF est THEN h.estimates + 1 ELSE h.estimates,
     estimated |-> est,
     cleared   |-> FALSE,
     keep      |-> h.keep,
     seen      |-> IF h.keep THEN Append(h.seen, frame) ELSE h.seen]

\* reset seen from outside; cleared: it found a stored estimate
BH_reset(h) == [NoBpHist EXCEPT !.cleared = h.estimates > 0]

\* BpmTracker::ensureFifoCapacity(needed): the fifo after it
BP_ensureFifoCapacity(b, needed) ==
    IF Len(b.fifo) - b.fifoFill < needed
    THEN [i \in 1 .. (b.fifoFill + needed + b.frameSize) |->
             IF i <= Len(b.fifo) THEN b.fifo[i] ELSE 0]
    ELSE b.fifo

\* the end of the loop body: r is what pushEnvelope returned
BP_slide(b, r, h) ==
    [b |-> [r.b EXCEPT
              \* if (fifoFill > hopSize)
              \*     memmove(fifo, fifo + hopSize, fifoFill - hopSize)
              !.fifo = IF b.fifoFill > b.hopSize
                       THEN [i \in DOMAIN b.fifo |->
                                IF i <= b.fifoFill - b.hopSize
                                THEN b.fifo[i + b.hopSize] ELSE b.fifo[i]]
                       ELSE b.fifo,
              !.fifoFill = b.fifoFill - b.hopSize],
     h |-> BH_step(h, SubSeq(b.fifo, 1, b.frameSize), r.est)]

\* the loop body from the band magnitudes on
BP_frame(b, bandMag, h) ==
    BP_slide(b, BP_pushEnvelope([b EXCEPT !.prevBandMag = bandMag],
                                BP_flux(bandMag, b.prevBandMag)), h)

RECURSIVE BP_frameLoop(_)
\* processMono: while (fifoFill >= frameSize); x is the tracker with its
\* history
BP_frameLoop(x) ==
    IF x.b.fifoFill < x.b.frameSize THEN x
    ELSE BP_frameLoop(BP_frame(x.b, BP_bandMag(x.b), x.h))

\* BpmTracker::processMono(samples, numSamples)
BP_processMono(b, h, samples) ==
    IF Len(samples) <= 0 THEN [b |-> b, h |-> h]
    ELSE LET grown == BP_ensureFifoCapacity(b, Len(samples))
         IN BP_frameLoop(
              [b |-> [b EXCEPT
                        \* memcpy(fifo.data() + fifoFill, samples, numSamples)
                        !.fifo = [i \in DOMAIN grown |->
                                    IF i > b.fifoFill
                                       /\ i <= b.fifoFill + Len(samples)
                                    THEN samples[i - b.fifoFill] ELSE grown[i]],
                        !.fifoFill = b.fifoFill + Len(samples)],
               h |-> h])

----------------------------------------------------------------------------
(* The key pipeline fed block by block, with the wall clock running *)

Chunk(s, n) == [i \in 1 .. n |-> s]

\* block lengths handed over in one call: one hop, or a whole frame
ChunkLens == {KdHop, KdFftSize}

Init ==
    /\ kd = KD_construct(ModelRate)
    /\ now = ClockStartMs
    /\ kdHist = NoHist
    /\ fed = 0
    /\ ticks = 0
    /\ bp = 0 /\ bpHist = 0
    /\ twin = 0 /\ tape = 0 /\ race = 0 /\ ring = 0
    /\ app = 0 /\ snap = 0 /\ la = 0 /\ io = 0

\* keydet->processMono(monoScratch.data(), numSamples)
ProcessMono ==
    \E s \in Sound, n \in ChunkLens :
        /\ fed + n <= MaxFed
        /\ \E r \in {KD_processMono(kd, kdHist, Chunk(s, n), now)} :
              /\ kd' = r.d
              /\ kdHist' = r.h
        /\ fed' = fed + n
        /\ UNCHANGED <<now, ticks, bpVars, auxVars>>

\* keydet->reset()
Reset ==
    /\ kd' = KD_reset(kd, 0)
    /\ kdHist' = H_reset(kdHist)
    /\ UNCHANGED <<now, fed, ticks, bpVars, auxVars>>

\* the millisecond counter advances between calls
ClockSteps == {publishMinIntervalMs, dwellRequiredMs}

Tick ==
    \E dt \in ClockSteps :
        /\ ticks < MaxTicks
        /\ now' = now + dt
        /\ ticks' = ticks + 1
        /\ UNCHANGED <<kd, kdHist, fed, bpVars, auxVars>>

Next == ProcessMono \/ Reset \/ Tick

Spec == Init /\ [][Next]_vars

----------------------------------------------------------------------------
(* The tempo pipeline fed block by block *)

\* a block that starts with one sample of sound s and is silent after it
Click(s, n) == [i \in 1 .. n |-> IF i = 1 THEN s ELSE 0]

\* the blocks handed over in one call: silence, or a click and its silence
BpBlocks == {Chunk(0, n) : n \in 1 .. 2} \cup {Click(1, n) : n \in 3 .. 4}

BpmInit ==
    /\ bp = BP_construct(BpRate)
    /\ bpHist = NoBpHist
    /\ fed = 0
    /\ kd = 0 /\ now = 0 /\ kdHist = 0 /\ ticks = 0
    /\ twin = 0 /\ tape = 0 /\ race = 0 /\ ring = 0
    /\ app = 0 /\ snap = 0 /\ la = 0 /\ io = 0

\* bpm->processMono(monoScratch.data(), numSamples)
BpmProcessMono ==
    \E blk \in BpBlocks :
        /\ fed + Len(blk) <= BpMaxFed
        /\ \E r \in {BP_processMono(bp, bpHist, blk)} :
              /\ bp' = r.b
              /\ bpHist' = r.h
        /\ fed' = fed + Len(blk)
        /\ UNCHANGED <<kdVars, auxVars>>

\* bpm->reset()
BpmReset ==
    /\ bp' = BP_reset(bp)
    /\ bpHist' = BH_reset(bpHist)
    /\ UNCHANGED <<fed, kdVars, auxVars>>

BpmNext == BpmProcessMono \/ BpmReset

SpecBpm == BpmInit /\ [][BpmNext]_vars

\* C8: after any sequence of processMono and reset calls getBpm() is 0 or
\* lies within [minBPM, maxBPM], and getConfidence() lies within [0, 1].
C8_TempoWellFormed ==
    /\ bp.currentBpm = 0
       \/ (bp.currentBpm >= minBPM * BpmScale /\ bp.currentBpm <= maxBPM * BpmScale)
    /\ bp.currentConf >= 0 /\ bp.currentConf <= ConfScale

\* C8 witness: an estimate has just been stored while the history already
\* held one, both the tempo and the confidence being positive
C8_TempoPublished ==
    /\ bpHist.estimated
    /\ bpHist.estimates >= 2
    /\ bp.currentBpm > 0
    /\ bp.currentConf > 0

\* the envelope history holds fewer samples than 2.5 s of envelope are
EnvelopeShort(b) == Len(b.onsetEnv) < (5 * b.sr) \div (2 * b.hopSize)

\* the envelope less its mean, negative values cut off, has no energy
EnvelopeFlat(b) ==
    \A i \in DOMAIN b.onsetEnv :
        b.onsetEnv[i] <= SumSeq(b.onsetEnv, Len(b.onsetEnv)) \div Len(b.onsetEnv)

\* the autocorrelation that an attempt computes has no local maximum
\* strictly inside the lag range
NoTempoPeak(acf) == \A i \in 1 .. Len(acf) - 2 : ~BP_isLocalMax(acf, i)

----------------------------------------------------------------------------
(* Live capture: both pipelines fed the same blocks in real time *)

\* the blocks of the live stream: a hop of silence, or a click of a sound
\* and its silence
LiveBlocks == {Chunk(0, KdHop), Click(NumSounds, KdFftSize)}

\* the time that capturing a block of n samples takes, in ms
BlockMs(n, sr) == (1000 * n) \div sr

\* onSampleRateChanged: bpm = make_unique<BpmTracker>(sr);
\* keydet = make_unique<KeyDetector>(sr)
LiveInit ==
    /\ bp = BP_construct(BpRate)
    /\ bpHist = NoBpHist
    /\ kd = KD_construct(BpRate)
    /\ kdHist = NoHist
    /\ now = ClockStartMs
    /\ fed = 0
    /\ ticks = 0
    /\ twin = 0 /\ tape = 0 /\ race = 0 /\ ring = 0
    /\ app = 0 /\ snap = 0 /\ la = 0 /\ io = 0

\* audio->onAudioBlock: bpm->processMono(...); keydet->processMono(...),
\* called when the block has been captured
LiveBlock ==
    \E blk \in LiveBlocks :
        /\ fed + Len(blk) <= LiveMaxFed
        /\ now' = now + BlockMs(Len(blk), BpRate)
        /\ \E rb \in {BP_processMono(bp, bpHist, blk)} :
              /\ bp' = rb.b
              /\ bpHist' = rb.h
        /\ \E rk \in {KD_processMono(kd, kdHist, blk,
                                      now + BlockMs(Len(blk), BpRate))} :
              /\ kd' = rk.d
              /\ kdHist' = rk.h
        /\ fed' = fed + Len(blk)
        /\ UNCHANGED <<ticks, auxVars>>

\* startListeningButton.onClick: bpm->reset(); keydet->reset()
LiveReset ==
    /\ bp' = BP_reset(bp)
    /\ bpHist' = BH_reset(bpHist)
    /\ kd' = KD_reset(kd, 0)
    /\ kdHist' = H_reset(kdHist)
    /\ UNCHANGED <<now, fed, ticks, auxVars>>

LiveNext == LiveBlock \/ LiveReset

SpecLive == LiveInit /\ [][LiveNext]_vars

\* the rolling state of a KeyDetector / of a BpmTracker
KdRolling(d) ==
    <<d.overlapFill, d.chromaEMA, d.tuningCentsEMA, d.instScore, d.viterbi,
      d.vitInit, d.vitCurrent, d.pendingKey, d.pendingSinceMs, d.lastPublishMs,
      d.lastResult>>
BpRolling(b) ==
    <<b.fifoFill, b.prevBandMag, b.fluxRaw, b.fluxMA, b.onsetEnv, b.emaState,
      b.bpmHistory, b.lastACFTime, b.currentBpm, b.currentConf>>

\* the configuration of a KeyDetector / of a BpmTracker
KdConfig(d) == <<d.sr, d.fftSize, d.hop>>
BpConfig(b) == <<b.sr, b.frameSize, b.hopSize>>

\* C6: reset() returns every piece of rolling state to its value right after
\* construction (KeyDetector: last result keyIndex -1; BpmTracker: published
\* bpm and confidence 0) and leaves the configuration unchanged.
C6_ResetRestoresConstruction ==
    [][LiveReset =>
          /\ KdRolling(kd') = KdRolling(KD_construct(kd.sr))
          /\ KdConfig(kd') = KdConfig(kd)
          /\ kd'.lastResult.keyIndex = -1
          /\ BpRolling(bp') = BpRolling(BP_construct(bp.sr))
          /\ BpConfig(bp') = BpConfig(bp)
          /\ bp'.currentBpm = 0 /\ bp'.currentConf = 0]_vars

\* C6 witness: reset has just run on pipelines that had published a key
\* and stored a tempo estimate, and left both as constructed
C6_ResetAfterPublishing ==
    /\ kdHist.cleared
    /\ bpHist.cleared
    /\ KdRolling(kd) = KdRolling(KD_construct(kd.sr))
    /\ BpRolling(bp) = BpRolling(BP_construct(bp.sr))

----------------------------------------------------------------------------
(* One stream analysed twice: live, with the clock running between the     *)
(* blocks, and offline, all blocks within the same millisecond             *)

\* bpm.processMono(mono.data(), toRead); kd.processMono(mono.data(), toRead)
\* of FileAnalyzerThread::run, at clock reading t; p holds the tempo tracker
\* and the key detector, each with its history
FeedPipelines(p, blk, t) ==
    [tempo |-> BP_processMono(p.tempo.b, p.tempo.h, blk),
     key   |-> KD_processMono(p.key.d, p.key.h, blk, t)]

TwoInit ==
    /\ kd = KD_construct(ModelRate)
    /\ kdHist = NoHist
    /\ bp = BP_construct(ModelRate)
    /\ bpHist = NoBpHist
    /\ twin = [tempo |-> [b |-> BP_construct(ModelRate), h |-> NoBpHist],
               key   |-> [d |-> KD_construct(ModelRate), h |-> NoHist]]
    /\ now = ClockStartMs
    /\ fed = 0
    /\ ticks = 0
    /\ tape = 0 /\ race = 0 /\ ring = 0
    /\ app = 0 /\ snap = 0 /\ la = 0 /\ io = 0

\* the same block goes to the live pipelines at the running clock and to the
\* offline pipelines (FileAnalyzerThread::run) at the clock of their start
TwoProcess ==
    \E s \in Sound, n \in ChunkLens :
        /\ fed + n <= TwoMaxFed
        /\ \E live \in {FeedPipelines([tempo |-> [b |-> bp, h |-> bpHist],
                                       key   |-> [d |-> kd, h |-> kdHist]],
                                      Chunk(s, n), now)} :
              /\ kd' = live.key.d
              /\ kdHist' = live.key.h
              /\ bp' = live.tempo.b
              /\ bpHist' = live.tempo.h
        /\ twin' = FeedPipelines(twin, Chunk(s, n), ClockStartMs)
        /\ fed' = fed + n
        /\ UNCHANGED <<now, ticks, tape, race, ring, appVars>>

TwoNext == TwoProcess \/ Tick

SpecTwoRuns == TwoInit /\ [][TwoNext]_vars

\* C4: two runs over the same samples re-estimate tempo and publish key
\* events at the same hops, however fast the processMono calls are made:
\* after every block both runs have published the same key events and
\* stored the same tempo estimates.
C4_SameHopsWhateverTheClock ==
    /\ kdHist.step.published = twin.key.h.step.published
    /\ kdHist.step.cb = twin.key.h.step.cb
    /\ kdHist.pubsSinceReset = twin.key.h.pubsSinceReset
    /\ bpHist = twin.tempo.h
    /\ bp.currentBpm = twin.tempo.b.currentBpm

----------------------------------------------------------------------------
(* One stream played, reset(), and the same stream played again *)

\* what the UI shows after a block (MainComponent::timerCallback): tempo and
\* confidence, the key result, and how many key events have been published
Shown(p) ==
    [bpm    |-> p.tempo.b.currentBpm,
     conf   |-> p.tempo.b.currentConf,
     key    |-> p.key.d.lastResult,
     events |-> p.key.h.pubsSinceReset]

ReplayInit ==
    /\ kd = KD_construct(ModelRate)
    /\ kdHist = NoHist
    /\ bp = BP_construct(ModelRate)
    /\ bpHist = NoBpHist
    /\ now = ClockStartMs
    /\ fed = 0
    /\ ticks = 0
    /\ tape = [phase |-> 1, blocks |-> << >>, first |-> << >>, again |-> << >>]
    /\ twin = 0 /\ race = 0 /\ ring = 0
    /\ app = 0 /\ snap = 0 /\ la = 0 /\ io = 0

\* first run: a block is processed and goes on the tape with what it showed
ReplayRecord ==
    \E s \in Sound, n \in ChunkLens :
        /\ tape.phase = 1
        /\ fed + n <= ReplayMaxFed
        /\ \E p \in {FeedPipelines([tempo |-> [b |-> bp, h |-> bpHist],
                                    key   |-> [d |-> kd, h |-> kdHist]],
                                   Chunk(s, n), now)} :
              /\ kd' = p.key.d
              /\ kdHist' = p.key.h
              /\ bp' = p.tempo.b
              /\ bpHist' = p.tempo.h
              /\ tape' = [tape EXCEPT !.blocks = Append(@, Chunk(s, n)),
                                      !.first  = Append(@, Shown(p))]
        /\ fed' = fed + n
        /\ UNCHANGED <<now, ticks, twin, race, ring, appVars>>

\* bpm->reset(); keydet->reset() between the runs
ReplayReset ==
    /\ tape.phase = 1
    /\ tape.blocks # << >>
    /\ kd' = KD_reset(kd, 0)
    /\ kdHist' = H_reset(kdHist)
    /\ bp' = BP_reset(bp)
    /\ bpHist' = BH_reset(bpHist)
    /\ tape' = [tape EXCEPT !.phase = 2]
    /\ UNCHANGED <<now, fed, ticks, twin, race, ring, appVars>>

\* second run: the next block of the tape is processed again
ReplayAgain ==
    /\ tape.phase = 2
    /\ Len(tape.again) < Len(tape.blocks)
    /\ \E p \in {FeedPipelines([tempo |-> [b |-> bp, h |-> bpHist],
                                key   |-> [d |-> kd, h |-> kdHist]],
                               tape.blocks[Len(tape.again) + 1], now)} :
          /\ kd' = p.key.d
          /\ kdHist' = p.key.h
          /\ bp' = p.tempo.b
          /\ bpHist' = p.tempo.h
          /\ tape' = [tape EXCEPT !.again = Append(@, Shown(p))]
    /\ UNCHANGED <<now, fed, ticks, twin, race, ring, appVars>>

ReplayNext == ReplayRecord \/ ReplayReset \/ ReplayAgain \/ Tick

SpecReplay == ReplayInit /\ [][ReplayNext]_vars

\* C5: after reset() the same input gives the same outputs again: block by
\* block the second run shows the tempo, the confidence, the key result and
\* the number of key events that the first run showed.
C5_ReplayShowsTheSame ==
    \A i \in 1 .. Len(tape.again) : tape.again[i] = tape.first[i]

----------------------------------------------------------------------------
(* reset() on the UI thread while the audio thread is inside processMono:  *)
(* the statements of both that touch the fill indices, interleaved.        *)
(* Neither index is atomic and no lock is taken.                           *)

RaceInit ==
    /\ race = [fifoFill    |-> 0,                \* BpmTracker::fifoFill
               fifoSize    |-> 4 * BpFrameSize,  \* fifo.size()
               overlapFill |-> 0,                \* KeyDetector::overlapFill
               audio       |-> "idle",           \* statement of the audio thread
               num         |-> 0,                \* numSamples of its call
               idx         |-> 0,                \* KeyDetector::processMono idx
               take        |-> 0,                \* KeyDetector::processMono take
               ui          |-> "idle",           \* statement of the UI thread
               outside     |-> FALSE,            \* an access left its buffer
               calls       |-> 0,
               resets      |-> 0]
    /\ kd = 0 /\ now = 0 /\ kdHist = 0 /\ fed = 0 /\ ticks = 0
    /\ bp = 0 /\ bpHist = 0 /\ twin = 0 /\ tape = 0 /\ ring = 0
    /\ app = 0 /\ snap = 0 /\ la = 0 /\ io = 0

RaceStep(r) == race' = r /\ UNCHANGED <<kdVars, fed, bpVars, twin, tape, ring, appVars>>

\* audio->onAudioBlock: bpm->processMono(monoScratch.data(), numSamples)
AudioBlock ==
    \E n \in 1 .. RaceMaxBlock :
        /\ race.audio = "idle"
        /\ race.calls < RaceMaxCalls
        /\ RaceStep([race EXCEPT !.audio = "bpm_ensure", !.num = n,
                                 !.calls = @ + 1])

\* BpmTracker::processMono: ensureFifoCapacity(numSamples)
BpmEnsure ==
    /\ race.audio = "bpm_ensure"
    /\ RaceStep([race EXCEPT
           !.fifoSize = IF race.fifoSize - race.fifoFill < race.num
                        THEN race.fifoFill + race.num + BpFrameSize ELSE @,
           !.audio = "bpm_copy"])

\* memcpy(fifo.data() + fifoFill, samples, numSamples)
BpmCopy ==
    /\ race.audio = "bpm_copy"
    /\ RaceStep([race EXCEPT
           !.outside = @ \/ race.fifoFill < 0
                         \/ race.fifoFill + race.num > race.fifoSize,
           !.audio = "bpm_add"])

\* fifoFill += numSamples
BpmAdd ==
    /\ race.audio = "bpm_add"
    /\ RaceStep([race EXCEPT !.fifoFill = @ + race.num, !.audio = "bpm_while"])

\* while (fifoFill >= frameSize); after the loop onAudioBlock goes on with
\* keydet->processMono(monoScratch.data(), numSamples)
BpmWhile ==
    /\ race.audio = "bpm_while"
    /\ RaceStep([race EXCEPT
           !.audio = IF race.fifoFill >= BpFrameSize THEN "bpm_move"
                     ELSE "kd_while",
           !.idx = 0])

\* the frame is read from fifo[0 .. frameSize), then
\* if (fifoFill > hopSize) memmove(fifo, fifo + hopSize, fifoFill - hopSize)
BpmMove ==
    /\ race.audio = "bpm_move"
    /\ RaceStep([race EXCEPT
           !.outside = @ \/ race.fifoFill > race.fifoSize,
           !.audio = "bpm_sub"])

\* fifoFill -= hopSize
BpmSub ==
    /\ race.audio = "bpm_sub"
    /\ RaceStep([race EXCEPT !.fifoFill = @ - BpHop, !.audio = "bpm_while"])

\* KeyDetector::processMono: while (idx < numSamples)
KdWhile ==
    /\ race.audio = "kd_while"
    /\ RaceStep([race EXCEPT
           !.audio = IF race.idx < race.num THEN "kd_take" ELSE "idle"])

\* need = fftSize - overlapFill; take = std::min(need, numSamples - idx)
KdTake ==
    /\ race.audio = "kd_take"
    /\ RaceStep([race EXCEPT
           !.take = Min2(KdFftSize - race.overlapFill, race.num - race.idx),
           !.audio = "kd_copy"])

\* memcpy(overlap.data() + overlapFill, samples + idx, take)
KdCopy ==
    /\ race.audio = "kd_copy"
    /\ RaceStep([race EXCEPT
           !.outside = @ \/ race.overlapFill < 0
                         \/ race.overlapFill + race.take > KdFftSize,
           !.audio = "kd_add"])

\* overlapFill += take; idx += take
KdAdd ==
    /\ race.audio = "kd_add"
    /\ RaceStep([race EXCEPT !.overlapFill = @ + race.take,
                             !.idx = @ + race.take,
                             !.audio = "kd_full"])

\* if (overlapFill == fftSize)
KdFull ==
    /\ race.audio = "kd_full"
    /\ RaceStep([race EXCEPT
           !.audio = IF race.overlapFill = KdFftSize THEN "kd_slide"
                     ELSE "kd_while"])

\* analyzeFrame(); memmove(...); overlapFill = remain
KdSlide ==
    /\ race.audio = "kd_slide"
    /\ RaceStep([race EXCEPT !.overlapFill = KdFftSize - KdHop,
                             !.audio = "kd_while"])

\* startListeningButton.onClick on the UI thread
Click_reset ==
    /\ race.ui = "idle"
    /\ race.resets < RaceMaxResets
    /\ RaceStep([race EXCEPT !.ui = "bpm_reset", !.resets = @ + 1])

\* bpm->reset(): fifoFill = 0
UiBpmReset ==
    /\ race.ui = "bpm_reset"
    /\ RaceStep([race EXCEPT !.fifoFill = 0, !.ui = "kd_reset"])

\* keydet->reset(): overlapFill = 0
UiKdReset ==
    /\ race.ui = "kd_reset"
    /\ RaceStep([race EXCEPT !.overlapFill = 0, !.ui = "idle"])

RaceNext ==
    \/ AudioBlock \/ BpmEnsure \/ BpmCopy \/ BpmAdd \/ BpmWhile \/ BpmMove
    \/ BpmSub \/ KdWhile \/ KdTake \/ KdCopy \/ KdAdd \/ KdFull \/ KdSlide
    \/ Click_reset \/ UiBpmReset \/ UiKdReset

SpecRace == RaceInit /\ [][RaceNext]_vars

\* C7: reset() is safe while the audio thread is inside processMono: under
\* every interleaving 0 <= fifoFill <= fifo.size(), 0 <= overlapFill <=
\* fftSize, and no access goes outside a buffer.
C7_ResetSafeMidStream ==
    /\ 0 <= race.fifoFill /\ race.fifoFill <= race.fifoSize
    /\ 0 <= race.overlapFill /\ race.overlapFill <= KdFftSize
    /\ ~race.outside

----------------------------------------------------------------------------
(* RingBuffer: one producer in pushPlanarToMono, one consumer in pop, each *)
(* load, store and element copy a step of its own.  Samples are numbered   *)
(* in the order they are offered; 0 is what the buffer holds at first.     *)

RingCapacity == Pow2(RingOrder)       \* capacity_
RingWrap     == Pow2(RingWordBits)    \* size_t counters wrap here

\* unsigned w - r
RingDiff(w, r) == (w - r + RingWrap) % RingWrap

\* free space that counts every slot: capacity_ - (w - r)
RingFree_everySlot(w, r) == RingCapacity - RingDiff(w, r)

\* capacity_ - 1 - (w - r)
RingFree(w, r) == RingCapacity - 1 - RingDiff(w, r)

\* index & mask_, as a position of the model's buffer (which starts at 1)
RingSlot(pos) == (pos % RingCapacity) + 1

\* pop that trusts its caller and does not look at what is available
RingToRead_unchecked(avail, numSamples) == numSamples

\* toRead = std::min(avail, numSamples)
RingToRead(avail, numSamples) == Min2(avail, numSamples)

IsPrefix(a, b) == Len(a) <= Len(b) /\ SubSeq(b, 1, Len(a)) = a

\* the locals of a thread that is outside its call
ProdIdle == [pc |-> "idle", n |-> 0, w |-> 0, r |-> 0, toWrite |-> 0, i |-> 0]
ConsIdle == [pc |-> "idle", n |-> 0, w |-> 0, r |-> 0, toRead |-> 0, i |-> 0,
             dst |-> << >>]

\* RingBuffer::reset(capacityPow2) from the constructor, both threads idle
RingInit ==
    /\ ring = [buffer   |-> [i \in 1 .. RingCapacity |-> 0],
               write    |-> 0,        \* write_
               read     |-> 0,        \* read_
               dropped  |-> 0,        \* dropped_
               prod     |-> ProdIdle,
               cons     |-> ConsIdle,
               offered  |-> 0,        \* samples offered so far
               accepted |-> << >>,    \* samples the pushes took, in order
               popped   |-> << >>]    \* samples the pops returned, in order
    /\ kd = 0 /\ now = 0 /\ kdHist = 0 /\ fed = 0 /\ ticks = 0
    /\ bp = 0 /\ bpHist = 0 /\ twin = 0 /\ tape = 0 /\ race = 0
    /\ app = 0 /\ snap = 0 /\ la = 0 /\ io = 0

RingStep(r) == ring' = r /\ UNCHANGED <<kdVars, fed, bpVars, twin, tape, race, appVars>>

\* the audio thread calls pushPlanarToMono(input, numCh, numSamples)
PushCall ==
    \E n \in 1 .. RingMaxPush :
        /\ ring.prod.pc = "idle"
        /\ ring.offered + n <= RingMaxOffered
        /\ RingStep([ring EXCEPT !.prod.pc = "load_w", !.prod.n = n])

\* w = write_.load(relaxed)
PushLoadWrite ==
    /\ ring.prod.pc = "load_w"
    /\ RingStep([ring EXCEPT !.prod.w = ring.write, !.prod.pc = "load_r"])

\* r = read_.load(acquire); free; toWrite = min(numSamples, free)
PushLoadRead ==
    /\ ring.prod.pc = "load_r"
    /\ LET toWrite == Min2(ring.prod.n, RingFree(ring.prod.w, ring.read))
       IN RingStep([ring EXCEPT
              !.prod.r = ring.read,
              !.prod.toWrite = toWrite,
              !.prod.i = 0,
              !.prod.pc = "loop",
              !.accepted = @ \o [k \in 1 .. toWrite |-> ring.offered + k]])

\* buffer_[(w + i) & mask_] = s
PushWrite ==
    /\ ring.prod.pc = "loop"
    /\ ring.prod.i < ring.prod.toWrite
    /\ RingStep([ring EXCEPT
           !.buffer[RingSlot(ring.prod.w + ring.prod.i)] =
               ring.offered + ring.prod.i + 1,
           !.prod.i = @ + 1])

\* write_.store(w + toWrite, release)
PushStore ==
    /\ ring.prod.pc = "loop"
    /\ ring.prod.i >= ring.prod.toWrite
    /\ RingStep([ring EXCEPT
           !.write = (ring.prod.w + ring.prod.toWrite) % RingWrap,
           !.prod.pc = "dropped"])

\* dropped_.fetch_add(numSamples - toWrite); return toWrite
PushReturn ==
    /\ ring.prod.pc = "dropped"
    /\ RingStep([ring EXCEPT
           !.dropped = @ + Max2(0, ring.prod.n - ring.prod.toWrite),
           !.offered = @ + ring.prod.n,
           !.prod = ProdIdle])

\* the analyzer thread calls pop(dst, numSamples)
PopCall ==
    \E n \in 1 .. RingMaxPush :
        /\ ring.cons.pc = "idle"
        /\ RingStep([ring EXCEPT !.cons.pc = "load_r", !.cons.n = n])

\* r = read_.load(relaxed)
PopLoadRead ==
    /\ ring.cons.pc = "load_r"
    /\ RingStep([ring EXCEPT !.cons.r = ring.read, !.cons.pc = "load_w"])

\* w = write_.load(acquire); avail = w - r; toRead = min(avail, numSamples)
PopLoadWrite ==
    /\ ring.cons.pc = "load_w"
    /\ RingStep([ring EXCEPT
           !.cons.w = ring.write,
           !.cons.toRead = RingToRead(RingDiff(ring.write, ring.cons.r),
                                      ring.cons.n),
           !.cons.i = 0,
           !.cons.pc = "loop"])

\* dst[i] = buffer_[(r + i) & mask_]
PopRead ==
    /\ ring.cons.pc = "loop"
    /\ ring.cons.i < ring.cons.toRead
    /\ RingStep([ring EXCEPT
           !.cons.dst = Append(@, ring.buffer[RingSlot(ring.cons.r + ring.cons.i)]),
           !.cons.i = @ + 1])

\* read_.store(r + toRead, release); return toRead
PopStore ==
    /\ ring.cons.pc = "loop"
    /\ ring.cons.i >= ring.cons.toRead
    /\ RingStep([ring EXCEPT
           !.read = (ring.cons.r + ring.cons.toRead) % RingWrap,
           !.popped = @ \o ring.cons.dst,
           !.cons = ConsIdle])

RingNext ==
    \/ PushCall \/ PushLoadWrite \/ PushLoadRead \/ PushWrite \/ PushStore
    \/ PushReturn
    \/ PopCall \/ PopLoadRead \/ PopLoadWrite \/ PopRead \/ PopStore

SpecRing == RingInit /\ [][RingNext]_vars

\* the samples between read_ and write_
RingUnread ==
    [k \in 1 .. RingDiff(ring.write, ring.read) |->
        ring.buffer[RingSlot(ring.read + k - 1)]]

\* C10: with one producer and one consumer, under every interleaving what
\* the pops return (what a pop in progress has copied included) is, in
\* order, a prefix of the samples the pushes accepted, and when both
\* threads are outside their calls every accepted sample has either been
\* popped or is waiting unread in the buffer: none lost, duplicated,
\* reordered or read before it was written.
C10_PoppedInPushOrder ==
    /\ IsPrefix(ring.popped \o ring.cons.dst, ring.accepted)
    /\ (ring.prod.pc = "idle" /\ ring.cons.pc = "idle")
          => ring.accepted = ring.popped \o RingUnread

\* the counters have wrapped, a push was cut short by a full buffer, and
\* everything accepted has been popped
C10_WrappedAndDrained ==
    /\ Len(ring.accepted) > RingWrap
    /\ ring.dropped > 0
    /\ ring.popped = ring.accepted
    /\ ring.prod.pc = "idle" /\ ring.cons.pc = "idle"

\* C11: a push that finds less free space than it needs still takes all its
\* samples (the oldest unread ones give way): no push is cut short, and once
\* the consumer has drained the buffer the last sample it got is the last
\* sample that was offered.
C11_NewestSamplesAccepted ==
    /\ ring.prod.pc \in {"loop", "dropped"} => ring.prod.toWrite = ring.prod.n
    /\ ring.dropped = 0
    /\ (ring.prod.pc = "idle" /\ ring.cons.pc = "idle" /\ ring.popped # << >>
        /\ ring.write = ring.read)
          => ring.popped[Len(ring.popped)] = ring.offered

----------------------------------------------------------------------------
(* MainComponent: the UI thread (start and stop of listening, destruction), *)
(* the capture thread (audio callback) and the LiveAnalyzer worker.  The    *)
(* pipelines appear by the sample rate they were constructed with.          *)

MinValidRate == 8000     \* threadFunc: if (sr < 8000.0) sleep
DefaultRate  == 44100    \* sr(sampleRate > 0.0 ? sampleRate : 44100.0)

\* sample rates a device or the loopback mix format may have
AppRates == {44100, 48000}

\* what the latest audio callback did
NoCallback ==
    [ran       |-> FALSE,
     allocated |-> FALSE,  \* it allocated memory on the capture thread
     fedStream |-> 0,      \* rate of the block it gave to the pipelines
     fedPipe   |-> 0,      \* rate the pipelines it fed were constructed with
     destroyed |-> FALSE]  \* it used a member that had been destroyed

AppInit ==
    /\ app = [alive       |-> "alive",  \* how far ~MainComponent has come
              listening   |-> FALSE,
              capture     |-> "none",   \* "juce", "native": the running path
              streamRate  |-> 0,        \* sample rate of the running stream
              currentSampleRate |-> 0,
              lastSr      |-> 0,        \* static lastSr of the native lambda
              pipeSr      |-> 0,        \* BpmTracker::sr, KeyDetector::sr of
                                        \* bpm and keydet; 0: both are null
              pipeArg     |-> 0,        \* sampleRate their constructors got
              running     |-> FALSE,    \* LiveAnalyzer::running
              worker      |-> "none",   \* "loop", "popped": the worker thread
              got         |-> 0,        \* samples the worker holds
              queued      |-> 0,        \* samples in monoFifo
              scratchCap  |-> 0,        \* capacity of static monoScratch
              liveBlockCounter |-> 0,
              poppedAtRate |-> 0,       \* history: rate seen at the latest pop
              cb          |-> NoCallback]
    /\ kd = 0 /\ now = 0 /\ kdHist = 0 /\ fed = 0 /\ ticks = 0
    /\ bp = 0 /\ bpHist = 0 /\ twin = 0 /\ tape = 0 /\ race = 0 /\ ring = 0
    /\ snap = 0 /\ la = 0 /\ io = 0

AppStep(a) ==
    app' = a /\ UNCHANGED <<kdVars, fed, bpVars, twin, tape, race, ring, snap, la, io>>

\* audio->onSampleRateChanged(sr): bpm = make_unique<BpmTracker>(sr);
\* keydet = make_unique<KeyDetector>(sr)
OnSampleRateChanged(a, sr) ==
    [a EXCEPT !.currentSampleRate = sr,
              !.pipeSr  = IF sr > 0 THEN sr ELSE DefaultRate,
              !.pipeArg = sr]

\* LiveAnalyzer::stop(): running.exchange(false); worker.join().  The worker
\* finishes the iteration it is in (processFrames of a popped chunk) and
\* leaves the loop
AnalyzerStop(a) ==
    [a EXCEPT !.running = FALSE, !.worker = "none", !.got = 0]

\* startListeningButton.onClick, not listening: startBestInputForLive opens
\* the JUCE device (audioDeviceAboutToStart reports its rate) or the native
\* loopback (which reports nothing until its first block)
StartListening ==
    \E path \in {"juce", "native"}, r \in AppRates :
        /\ app.alive = "alive"
        /\ ~app.listening
        /\ LET opened == [app EXCEPT !.capture = path, !.streamRate = r]
               told   == IF path = "juce" THEN OnSampleRateChanged(opened, r)
                         ELSE opened
           IN AppStep([told EXCEPT
                  !.listening = TRUE,
                  !.liveBlockCounter = 0,
                  !.running = TRUE,
                  !.worker = IF app.running THEN @ ELSE "loop"])

\* the capture thread delivers a block: the native lambda (lastSr), then
\* audio->onAudioBlock.  A member that ~MainComponent has destroyed is used
\* all the same; what a destroyed unique_ptr holds is anything, null or not
AudioCallback ==
    \E n \in 1 .. AppMaxBlock, stale \in BOOLEAN :
        /\ app.capture # "none"
        /\ app.liveBlockCounter < AppMaxBlocks
        /\ stale => app.alive # "alive"
        /\ LET sr      == app.streamRate
               rebuild == app.capture = "native" /\ sr > 0
                          /\ (sr - app.lastSr > 1 \/ app.lastSr - sr > 1)
               a1      == IF rebuild
                          THEN [OnSampleRateChanged(app, sr) EXCEPT !.lastSr = sr]
                          ELSE app
               feeds   == a1.pipeSr # 0 /\ (app.alive = "alive" \/ stale)
           IN AppStep([a1 EXCEPT
                  !.currentSampleRate = sr,
                  \* monoFifo.pushPlanarToMono(input, numCh, numSamples)
                  !.queued = @ + Min2(n, AppQueueCap - 1 - @),
                  \* monoScratch.resize(numSamples)
                  !.scratchCap = Max2(@, n),
                  !.liveBlockCounter = @ + 1,
                  !.cb = [ran       |-> TRUE,
                          allocated |-> rebuild \/ n > app.scratchCap,
                          fedStream |-> IF feeds THEN sr ELSE 0,
                          fedPipe   |-> IF feeds THEN a1.pipeSr ELSE 0,
                          destroyed |-> (feeds /\ app.alive # "alive")
                                        \/ app.alive = "fifo_gone"]])

\* startListeningButton.onClick, listening: audio->stop() (which reports
\* rate 0), analyzer->stop(), bpm->reset(), keydet->reset()
StopListening ==
    /\ app.alive = "alive"
    /\ app.listening
    /\ AppStep(AnalyzerStop(
           [OnSampleRateChanged(app, 0) EXCEPT
               !.capture = "none", !.streamRate = 0, !.listening = FALSE]))

\* LiveAnalyzer::threadFunc: one pass of the loop up to processFrames
WorkerPop ==
    /\ app.worker = "loop"
    /\ app.running
    /\ app.currentSampleRate >= MinValidRate
    /\ app.queued > 0
    /\ AppStep([app EXCEPT !.got = Min2(app.queued, AppChunk),
                           !.queued = @ - Min2(app.queued, AppChunk),
                           !.poppedAtRate = app.currentSampleRate,
                           !.worker = "popped"])

\* processFrames(temp.data(), got), back to the top of the loop
WorkerProcess ==
    /\ app.worker = "popped"
    /\ AppStep([app EXCEPT !.got = 0, !.worker = "loop"])

\* ~MainComponent: the members go in reverse order of declaration: keydet
\* and bpm, analyzer (its destructor stops and joins the worker), monoFifo,
\* and last audio (its destructor stops capture and reports rate 0)
Destroy ==
    /\ app.alive # "gone"
    /\ AppStep(CASE app.alive = "alive" ->
                      [app EXCEPT !.alive = "pipes_gone"]
                 [] app.alive = "pipes_gone" ->
                      [AnalyzerStop(app) EXCEPT !.alive = "analyzer_gone"]
                 [] app.alive = "analyzer_gone" ->
                      [app EXCEPT !.alive = "fifo_gone"]
                 [] OTHER ->
                      [OnSampleRateChanged(app, 0) EXCEPT
                          !.alive = "gone", !.capture = "none",
                          !.streamRate = 0])

AppNext ==
    \/ StartListening \/ AudioCallback \/ StopListening
    \/ WorkerPop \/ WorkerProcess \/ Destroy

SpecApp == AppInit /\ [][AppNext]_vars

\* C12: the audio callback allocates nothing and its only hand-off to
\* analysis is the push into the queue: it runs no pipeline itself.
C12_CallbackOnlyPushes ==
    app.cb.ran => ~app.cb.allocated /\ app.cb.fedPipe = 0

\* C13: below 8000 Hz (0 included) no pipeline is constructed and none is
\* fed: every pipeline that exists was constructed with a rate of at least
\* 8000, blocks reach pipelines only at such a rate, and the worker pops
\* only at such a rate.
C13_NothingBelowValidRate ==
    /\ app.pipeSr # 0 => app.pipeArg >= MinValidRate
    /\ app.cb.fedPipe # 0 => app.cb.fedStream >= MinValidRate
    /\ app.worker = "popped" => app.poppedAtRate >= MinValidRate

\* C14: whenever a block is fed to the pipelines, the rate they were
\* constructed with is the rate of the stream the block comes from.
C14_PipelineRateIsStreamRate ==
    app.cb.fedPipe # 0 => app.cb.fedPipe = app.cb.fedStream

\* C15: no thread feeds a pipeline or a queue that has been destroyed, and
\* the worker is gone before anything it uses is destroyed.
C15_NothingFedAfterDestruction ==
    /\ ~app.cb.destroyed
    /\ app.alive \in {"analyzer_gone", "fifo_gone", "gone"} => app.worker = "none"

----------------------------------------------------------------------------
(* Published results read from another thread: BpmTracker::currentBpm and
   currentConf are two atomics stored one after the other; KeyDetector::
   lastResult is one atomic<Result>.  Each stored value carries the number
   of the publication it belongs to ("of", history only). *)

SnapMaxPublications == 3

SnapEstimates ==
    { [bpm |-> 120 * BpmScale, conf |-> ConfScale \div 2],
      [bpm |-> 90 * BpmScale,  conf |-> ConfScale] }

SnapKeys ==
    { [keyIndex |-> 0, isMinor |-> FALSE, confidence |-> ScoreScale],
      [keyIndex |-> 9, isMinor |-> TRUE,  confidence |-> ScoreScale \div 2] }

SnapInit ==
    /\ snap = [currentBpm  |-> [v |-> 0, of |-> 0],
               currentConf |-> [v |-> 0, of |-> 0],
               lastResult  |-> [r |-> NoResult, of |-> 0],
               n      |-> 0,           \* publications and resets so far
               writer |-> "idle",      \* "tempo", "reset": between two stores
               conf   |-> 0,           \* conf of the estimate being stored
               reader |-> "idle",      \* "bpm": between the two loads
               b |-> [v |-> 0, of |-> 0],
               c |-> [v |-> 0, of |-> 0],
               k |-> [r |-> NoResult, of |-> 0],
               keys |-> {[r |-> NoResult, of |-> 0]}]   \* history
    /\ kd = 0 /\ now = 0 /\ kdHist = 0 /\ fed = 0 /\ ticks = 0
    /\ bp = 0 /\ bpHist = 0 /\ twin = 0 /\ tape = 0 /\ race = 0 /\ ring = 0
    /\ app = 0 /\ la = 0 /\ io = 0

SnapStep(s) ==
    snap' = s /\ UNCHANGED <<kdVars, fed, bpVars, twin, tape, race, ring, app, la, io>>

\* maybeComputeTempo: currentBpm.store(smoothBpm)
StoreBpm ==
    /\ snap.writer = "idle" /\ snap.n < SnapMaxPublications
    /\ \E e \in SnapEstimates :
          SnapStep([snap EXCEPT !.n = @ + 1, !.writer = "tempo", !.conf = e.conf,
                                !.currentBpm = [v |-> e.bpm, of |-> snap.n + 1]])

\* maybeComputeTempo: currentConf.store(conf)
StoreConf ==
    /\ snap.writer = "tempo"
    /\ SnapStep([snap EXCEPT !.writer = "idle", !.conf = 0,
                             !.currentConf = [v |-> snap.conf, of |-> snap.n]])

\* BpmTracker::reset: currentBpm.store(0.0f)
ResetStoreBpm ==
    /\ snap.writer = "idle" /\ snap.n < SnapMaxPublications
    /\ SnapStep([snap EXCEPT !.n = @ + 1, !.writer = "reset",
                             !.currentBpm = [v |-> 0, of |-> snap.n + 1]])

\* BpmTracker::reset: currentConf.store(0.0f)
ResetStoreConf ==
    /\ snap.writer = "reset"
    /\ SnapStep([snap EXCEPT !.writer = "idle",
                             !.currentConf = [v |-> 0, of |-> snap.n]])

\* KeyDetector::maybePublish: lastResult.store(r)
StoreKey ==
    /\ snap.writer = "idle" /\ snap.n < SnapMaxPublications
    /\ \E r \in SnapKeys :
          SnapStep([snap EXCEPT !.n = @ + 1,
                                !.lastResult = [r |-> r, of |-> snap.n + 1],
                                !.keys = @ \cup {[r |-> r, of |-> snap.n + 1]}])

\* BpmTracker::getBpm
GetBpm ==
    /\ snap.reader = "idle"
    /\ SnapStep([snap EXCEPT !.reader = "bpm", !.b = snap.currentBpm])

\* BpmTracker::getConfidence
GetConfidence ==
    /\ snap.reader = "bpm"
    /\ SnapStep([snap EXCEPT !.reader = "idle", !.c = snap.currentConf])

\* KeyDetector::getLast
GetLast ==
    /\ snap.reader = "idle"
    /\ SnapStep([snap EXCEPT !.k = snap.lastResult])

SnapNext ==
    \/ StoreBpm \/ StoreConf \/ ResetStoreBpm \/ ResetStoreConf \/ StoreKey
    \/ GetBpm \/ GetConfidence \/ GetLast

SpecSnap == SnapInit /\ [][SnapNext]_vars

\* C16: what a reader obtains was published as a whole: after getBpm and
\* getConfidence the bpm and the confidence belong to the same estimate (or
\* the same reset), and getLast returns a triple that was published.
C16_ReadsAreWholePublications ==
    /\ snap.reader = "idle" => snap.b.of = snap.c.of
    /\ snap.k \in snap.keys

----------------------------------------------------------------------------
(* LiveAnalyzer: framing.  The spectrum of a frame is not modelled, only    *)
(* which samples make up each frame and how the flux ring advances.         *)

LaFftOrder == 2
LaHop == 2
LaAnalysisSeconds == 10

LaFftSize == Pow2(LaFftOrder)

\* LiveAnalyzer::LiveAnalyzer(fifo, sampleRateRef, Settings) with Settings::hop
LA_construct(hop) ==
    [fftSize     |-> LaFftSize,
     hop         |-> hop,
     overlap     |-> [i \in 1 .. LaFftSize |-> 0],
     overlapFill |-> 0,
     fluxWrite   |-> 0,
     fluxCount   |-> 0,
     maxFlux     |-> Max2(64, RoundDiv(LaAnalysisSeconds * 44100, hop)),
     frames      |-> << >>,    \* history: the frames analysed so far
     crashed     |-> FALSE]    \* history: the process died of undefined behaviour

\* processFrames from the full frame on: window, slide by hop, flux into the ring
LA_slide(l) ==
    LET remain == l.fftSize - l.hop
    IN [l EXCEPT
          !.overlap = [i \in DOMAIN l.overlap |->
                         IF i <= remain THEN l.overlap[i + l.hop] ELSE l.overlap[i]],
          !.overlapFill = remain,
          !.fluxWrite = (l.fluxWrite + 1) % l.maxFlux,
          !.fluxCount = IF l.fluxCount < l.maxFlux THEN l.fluxCount + 1 ELSE l.fluxCount,
          !.frames = Append(l.frames, l.overlap)]

RECURSIVE LA_frameLoop(_, _, _)
\* processFrames: while (idx < num)
LA_frameLoop(l, input, idx) ==
    IF idx >= Len(input) THEN l
    ELSE
      LET need == l.fftSize - l.overlapFill
          take == Min2(need, Len(input) - idx)
          l1   == [l EXCEPT
                     !.overlap = [i \in DOMAIN l.overlap |->
                                    IF i > l.overlapFill /\ i <= l.overlapFill + take
                                    THEN input[idx + (i - l.overlapFill)]
                                    ELSE l.overlap[i]],
                     !.overlapFill = l.overlapFill + take]
      IN IF l.overlapFill + take < l.fftSize
         THEN LA_frameLoop(l1, input, idx + take)
         ELSE LA_frameLoop(LA_slide(l1), input, idx + take)

\* LiveAnalyzer::processFrames(input, num)
LA_processFrames(l, input) == LA_frameLoop(l, input, 0)

----------------------------------------------------------------------------
(* Instances constructed from Settings with a hop of the caller's choice *)

ConfigMaxFed == 6

\* Settings::hop offered to a constructor: the default, a whole frame, more
ConfigHops(default, frameSize) == {default, frameSize, frameSize + 1}

\* the slide computes a negative remain (memmove of a negative size), or the
\* fill index is negative already (copy in front of the buffer): undefined
BadSlide(x, n) ==
    x.hop > x.fftSize /\ (x.overlapFill < 0 \/ x.overlapFill + n >= x.fftSize)

ConfigInit ==
    /\ \E hop \in ConfigHops(KdHop, KdFftSize) :
          kd = [KD_construct(ModelRate) EXCEPT !.hop = hop]
    /\ \E hop \in ConfigHops(LaHop, LaFftSize) : la = LA_construct(hop)
    /\ now = ClockStartMs /\ kdHist = NoHist /\ fed = 0 /\ ticks = 0
    /\ bp = 0 /\ bpHist = 0 /\ twin = 0 /\ tape = 0 /\ race = 0 /\ ring = 0
    /\ app = 0 /\ snap = 0 /\ io = 0

RECURSIVE LA_drain(_, _)
\* LiveAnalyzer::threadFunc: pop at most hop samples, processFrames, again
LA_drain(l, queued) ==
    IF queued = << >> THEN l
    ELSE LET got == Min2(l.hop, Len(queued))
         IN LA_drain(LA_processFrames(l, SubSeq(queued, 1, got)),
                     SubSeq(queued, got + 1, Len(queued)))

\* one captured block: keydet->processMono(block) on the audio thread, and
\* the same samples through the queue to the worker
ConfigBlock ==
    \E s \in Sound, n \in {1, KdHop, KdFftSize} :
        /\ ~la.crashed /\ fed + n <= ConfigMaxFed
        /\ \E r \in {KD_processMono(kd, kdHist, Chunk(s, n), now)},
              l \in {LA_drain(la, Chunk(s, n))} :
              /\ kd' = r.d
              /\ kdHist' = r.h
              /\ la' = l
        /\ fed' = fed + n
        /\ UNCHANGED <<now, ticks, bpVars, twin, tape, race, ring, app, snap, io>>

\* the same block when a slide is undefined: the process may die instead
ConfigCrash ==
    \E n \in {1, KdHop, KdFftSize} :
        /\ ~la.crashed /\ fed + n <= ConfigMaxFed
        /\ BadSlide(kd, n) \/ BadSlide(la, n)
        /\ la' = [la EXCEPT !.crashed = TRUE]
        /\ UNCHANGED <<kdVars, fed, bpVars, twin, tape, race, ring, app, snap, io>>

ConfigNext == ConfigBlock \/ ConfigCrash

SpecConfig == ConfigInit /\ [][ConfigNext]_vars

\* C17: no KeyDetector and no LiveAnalyzer exists with hop > fftSize, and
\* the fill index of the frame buffer stays within 0 .. fftSize.
C17_HopNeverExceedsFrame ==
    /\ kd.hop <= kd.fftSize /\ kd.overlapFill \in 0 .. kd.fftSize
    /\ la.hop <= la.fftSize /\ la.overlapFill \in 0 .. la.fftSize

----------------------------------------------------------------------------
(* The entry points as C++ declares them: a pointer that may be null and a  *)
(* count that may be zero or negative.  A pointer is [null, data].          *)

NullMaxFed == 4
NotANumber == -1      \* 0.0f / 0.0f

NullPtr == [null |-> TRUE, data |-> << >>]
Ptr(data) == [null |-> FALSE, data |-> data]

\* KeyDetector::processMono(samples, numSamples) at clock reading t
KD_processMonoCall(d, h, samples, numSamples, t) ==
    IF samples.null \/ numSamples <= 0 THEN [d |-> d, h |-> h]
    ELSE KD_processMono(d, h, SubSeq(samples.data, 1, numSamples), t)

\* BpmTracker::processMono(samples, numSamples)
BP_processMonoCall(b, h, samples, numSamples) ==
    IF samples.null \/ numSamples <= 0 THEN [b |-> b, h |-> h]
    ELSE BP_processMono(b, h, SubSeq(samples.data, 1, numSamples))

\* pushPlanarToMono after its first line; input.data is the sum of the
\* channels, sample by sample
RB_write(r, input, numCh, numSamples) ==
    LET w       == r.write
        toWrite == Min2(numSamples, RingFree(w, r.read))
    IN [ring |-> [r EXCEPT
                    !.buffer = [p \in DOMAIN r.buffer |->
                                  IF \E i \in 0 .. toWrite - 1 : RingSlot(w + i) = p
                                  THEN LET i == CHOOSE i \in 0 .. toWrite - 1 :
                                                   RingSlot(w + i) = p
                                       IN IF numCh <= 0 THEN NotANumber
                                          ELSE input.data[i + 1]
                                  ELSE r.buffer[p]],
                    !.write = (w + toWrite) % RingWrap,
                    !.dropped = @ + Max2(0, numSamples - toWrite)],
        ret  |-> toWrite]

\* a push that checks the pointer and the count but not numCh
RB_pushPlanarToMono_anyNumCh(r, input, numCh, numSamples) ==
    IF input.null \/ numSamples <= 0 THEN [ring |-> r, ret |-> 0]
    ELSE RB_write(r, input, numCh, numSamples)

\* RingBuffer::pushPlanarToMono(input, numCh, numSamples)
RB_pushPlanarToMono(r, input, numCh, numSamples) ==
    IF input.null \/ numCh <= 0 \/ numSamples <= 0 THEN [ring |-> r, ret |-> 0]
    ELSE RB_write(r, input, numCh, numSamples)

\* RingBuffer::pop(dst, numSamples)
RB_pop(r, dst, numSamples) ==
    IF dst.null \/ numSamples = 0 THEN [ring |-> r, ret |-> 0]
    ELSE LET toRead == RingToRead(RingDiff(r.write, r.read), numSamples)
         IN [ring |-> [r EXCEPT !.read = (r.read + toRead) % RingWrap],
             ret  |-> toRead]

\* a call is degenerate when its pointer is null or its count is not positive
Degenerate(c) ==
    c.op # "block" /\ (c.null \/ c.numSamples <= 0 \/ (c.op = "push" /\ c.numCh <= 0))

NullInit ==
    /\ kd = KD_construct(ModelRate) /\ now = ClockStartMs /\ kdHist = NoHist
    /\ bp = BP_construct(BpRate) /\ bpHist = NoBpHist
    /\ ring = [buffer |-> [i \in 1 .. RingCapacity |-> 0],
               write |-> 0, read |-> 0, dropped |-> 0]
    /\ io = [op |-> "block", null |-> FALSE, numCh |-> 1, numSamples |-> 0, ret |-> 0]
    /\ fed = 0 /\ ticks = 0
    /\ twin = 0 /\ tape = 0 /\ race = 0 /\ app = 0 /\ snap = 0 /\ la = 0

\* audio->onAudioBlock: the block goes into the queue and through both
\* pipelines
NullBlock ==
    \E s \in 1 .. NumSounds, n \in 1 .. KdHop :
        /\ fed + n <= NullMaxFed
        /\ \E q \in {RB_pushPlanarToMono(ring, Ptr(Chunk(s, n)), 1, n)},
              t \in {BP_processMonoCall(bp, bpHist, Ptr(Chunk(s, n)), n)},
              k \in {KD_processMonoCall(kd, kdHist, Ptr(Chunk(s, n)), n, now)} :
              /\ ring' = q.ring
              /\ bp' = t.b /\ bpHist' = t.h
              /\ kd' = k.d /\ kdHist' = k.h
              /\ io' = [op |-> "block", null |-> FALSE, numCh |-> 1,
                        numSamples |-> n, ret |-> q.ret]
        /\ fed' = fed + n
        /\ UNCHANGED <<now, ticks, twin, tape, race, app, snap, la>>

\* pop(dst, numSamples) with any destination and count
NullPop ==
    \E null \in BOOLEAN, n \in 0 .. KdHop :
        \E q \in {RB_pop(ring, IF null THEN NullPtr ELSE Ptr(<< >>), n)} :
            /\ ring' = q.ring
            /\ io' = [op |-> "pop", null |-> null, numCh |-> 1,
                      numSamples |-> n, ret |-> q.ret]
            /\ UNCHANGED <<kdVars, fed, bpVars, twin, tape, race, app, snap, la>>

\* pushPlanarToMono with a null input, no channel or no sample
NullPush ==
    \E null \in BOOLEAN, numCh \in 0 .. 1, n \in -1 .. 1 :
        /\ null \/ numCh <= 0 \/ n <= 0
        /\ \E q \in {RB_pushPlanarToMono(ring, IF null THEN NullPtr ELSE Ptr(Chunk(1, n)),
                                        numCh, n)} :
              /\ ring' = q.ring
              /\ io' = [op |-> "push", null |-> null, numCh |-> numCh,
                        numSamples |-> n, ret |-> q.ret]
        /\ UNCHANGED <<kdVars, fed, bpVars, twin, tape, race, app, snap, la>>

\* keydet->processMono with a null pointer or no sample
NullKey ==
    \E null \in BOOLEAN, n \in -1 .. 1 :
        /\ null \/ n <= 0
        /\ \E k \in {KD_processMonoCall(kd, kdHist,
                        IF null THEN NullPtr ELSE Ptr(Chunk(1, n)), n, now)} :
              /\ kd' = k.d /\ kdHist' = k.h
              /\ io' = [op |-> "key", null |-> null, numCh |-> 1,
                        numSamples |-> n, ret |-> 0]
        /\ UNCHANGED <<now, ticks, fed, bpVars, twin, tape, race, ring, app, snap, la>>

\* bpm->processMono with a null pointer or no sample
NullBpm ==
    \E null \in BOOLEAN, n \in -1 .. 1 :
        /\ null \/ n <= 0
        /\ \E t \in {BP_processMonoCall(bp, bpHist,
                        IF null THEN NullPtr ELSE Ptr(Chunk(1, n)), n)} :
              /\ bp' = t.b /\ bpHist' = t.h
              /\ io' = [op |-> "bpm", null |-> null, numCh |-> 1,
                        numSamples |-> n, ret |-> 0]
        /\ UNCHANGED <<kdVars, fed, twin, tape, race, ring, app, snap, la>>

NullNext == NullBlock \/ NullPop \/ NullPush \/ NullKey \/ NullBpm

SpecNull == NullInit /\ [][NullNext]_vars

\* C18: a call with a null pointer, no channel or no sample changes nothing
\* (buffers, fill indices, counters, histories, published results), returns
\* 0 where it returns a count and publishes nothing.
C18_DegenerateCallIsNoOp ==
    [][Degenerate(io') =>
          /\ kd' = kd /\ kdHist' = kdHist
          /\ bp' = bp /\ bpHist' = bpHist
          /\ ring' = ring
          /\ io'.ret = 0]_vars

\* C18 witness: a push with no channel has just returned 0 while samples
\* wait unread in the queue and both pipelines hold part of a frame
C18_NoChannelPushMidStream ==
    /\ io.op = "push" /\ ~io.null /\ io.numCh <= 0 /\ io.numSamples > 0
    /\ io.ret = 0
    /\ ring.write # ring.read
    /\ kd.overlapFill > 0 /\ bp.fifoFill > 0

----------------------------------------------------------------------------
(* One stream cut into chunks of any length and handed to the three         *)
(* framers, whose observers keep the frames.  The tempo tracker is scaled   *)
(* to the frame and hop of the key detector, so that a chunk can be shorter *)
(* than its hop.                                                            *)

FrameMaxFed == 9

\* chunk lengths: shorter than a hop, between hop and frame, longer than a frame
FrameChunkLens == {1, KdHop + 1, KdFftSize + 1}

FrameInit ==
    /\ kd = KD_construct(ModelRate) /\ now = ClockStartMs
    /\ kdHist = [NoHist EXCEPT !.keep = TRUE]
    /\ bp = [BP_construct(BpRate) EXCEPT !.frameSize = KdFftSize, !.hopSize = KdHop,
                                         !.fifo = [i \in 1 .. 4 * KdFftSize |-> 0]]
    /\ bpHist = [NoBpHist EXCEPT !.keep = TRUE]
    /\ la = LA_construct(LaHop)
    /\ tape = [stream |-> << >>, lens |-> {}]
    /\ fed = 0 /\ ticks = 0
    /\ twin = 0 /\ race = 0 /\ ring = 0 /\ app = 0 /\ snap = 0 /\ io = 0

\* the next chunk of the stream goes to processMono of both pipelines and to
\* processFrames
FrameChunk ==
    \E s \in {0, NumSounds}, n \in FrameChunkLens :
        /\ fed + n <= FrameMaxFed
        /\ \E k \in {KD_processMono(kd, kdHist, Click(s, n), now)},
              t \in {BP_processMono(bp, bpHist, Click(s, n))},
              l \in {LA_processFrames(la, Click(s, n))} :
              /\ kd' = k.d /\ kdHist' = k.h
              /\ bp' = t.b /\ bpHist' = t.h
              /\ la' = l
        /\ tape' = [stream |-> tape.stream \o Click(s, n), lens |-> tape.lens \cup {n}]
        /\ fed' = fed + n
        /\ UNCHANGED <<now, ticks, twin, race, ring, app, snap, io>>

\* startListeningButton.onClick: bpm->reset(); keydet->reset(), and a new
\* analyzer; the stream starts over
FrameReset ==
    /\ fed > 0
    /\ kd' = KD_reset(kd, 0)
    /\ kdHist' = [H_reset(kdHist) EXCEPT !.keep = TRUE]
    /\ bp' = BP_reset(bp)
    /\ bpHist' = [BH_reset(bpHist) EXCEPT !.keep = TRUE]
    /\ la' = LA_construct(LaHop)
    /\ tape' = [stream |-> << >>, lens |-> {}]
    /\ UNCHANGED <<now, fed, ticks, twin, race, ring, app, snap, io>>

FrameNext == FrameChunk \/ FrameReset

SpecFraming == FrameInit /\ [][FrameNext]_vars

\* the frames of a stream: none if it is shorter than a frame, else
\* 1 + floor((n - frameSize) / hop) of them, frame i (from 0) being the
\* samples i*hop .. i*hop + frameSize - 1
FramesOf(stream, frameSize, hop) ==
    [i \in 1 .. (IF Len(stream) < frameSize THEN 0
                 ELSE 1 + (Len(stream) - frameSize) \div hop) |->
        SubSeq(stream, (i - 1) * hop + 1, (i - 1) * hop + frameSize)]

\* C20: however the stream is cut into chunks, after n samples each framer
\* (KeyDetector::processMono, BpmTracker::processMono, LiveAnalyzer::
\* processFrames) has analysed, in order, exactly the frames of the stream:
\* 0 if n < frameSize, else 1 + floor((n - frameSize) / hop), frame i
\* covering samples i*hop .. i*hop + frameSize - 1.
C20_FramesWhateverTheChunks ==
    /\ kdHist.seen = FramesOf(tape.stream, kd.fftSize, kd.hop)
    /\ bpHist.seen = FramesOf(tape.stream, bp.frameSize, bp.hopSize)
    /\ la.frames = FramesOf(tape.stream, la.fftSize, la.hop)

\* C20 witness: the stream came in chunks shorter than a hop and chunks
\* longer than a frame, and every framer has analysed three frames
C20_ShortAndLongChunks ==
    /\ 1 \in tape.lens /\ KdFftSize + 1 \in tape.lens
    /\ Len(kdHist.seen) >= 3 /\ Len(bpHist.seen) >= 3 /\ Len(la.frames) >= 3
    /\ kdHist.seen[1] # kdHist.seen[2]

\* C21: from a freshly constructed or reset pipeline, exactly one frame of
\* all-zero samples yields flux 0, appends 0 to the onset envelope of the
\* tempo tracker and leaves the chroma EMA of the key detector all-zero.
C21_ZeroFrameZeroFluxZeroChroma ==
    /\ kdHist.seen = <<[i \in 1 .. kd.fftSize |-> 0]>> => kd.chromaEMA = Zero12
    /\ bpHist.seen = <<[i \in 1 .. bp.frameSize |-> 0]>> =>
          bp.fluxRaw = <<0>> /\ bp.onsetEnv = <<0>>

\* C21 witness: after a reset that followed sound, both pipelines have
\* analysed exactly one frame, all-zero, and hold zero flux and zero chroma
C21_OneSilentFrameAfterReset ==
    /\ kdHist.seen = <<[i \in 1 .. kd.fftSize |-> 0]>>
    /\ bpHist.seen = <<[i \in 1 .. bp.frameSize |-> 0]>>
    /\ fed > Len(tape.stream)
    /\ bp.fluxRaw = <<0>> /\ kd.chromaEMA = Zero12

\* C26: the first frame analysed after construction or reset yields flux 0
\* whatever it contains.
C26_FirstFrameFluxZero ==
    Len(bpHist.seen) = 1 => bp.fluxRaw = <<0>>

\* C22: the instantaneous score of state k with root r = k mod 12 is the
\* cosine similarity between the template of its mode and the chroma rotated
\* to r: template index i meets chroma pitch class (i + r) mod 12.
C22_ScoreRotatesToRoot ==
    kd.instScore =
        Vec24(LAMBDA k :
            cosineSim(Vec12(LAMBDA i : kd.chromaEMA[wrap12(i + (k % 12)) + 1]),
                      IF k < 12 THEN profMaj ELSE profMin))

\* C23: the comb score of a candidate lag l is (ACF(l) + 0.5 ACF(2l) +
\* 0.33 ACF(3l)) / 1.83, a multiple outside the computed lag range counting
\* 0: the entries read are those stored for the lags l, 2l and 3l.  acfBuf
\* holds the lags from minLag on.
C23_CombReadsMultiplesOfLag ==
    LET minLag == bpmToLag(bp, maxBPM)
        ACF(lag) == IF lag >= minLag /\ lag - minLag < Len(bp.acfBuf)
                    THEN bp.acfBuf[lag - minLag + 1] ELSE 0
    IN \A l \in minLag .. (minLag + Len(bp.acfBuf) - 1) :
          BP_combScoreAtLag(bp.acfBuf, l - minLag) =
              (100 * ACF(l) + 50 * ACF(2 * l) + 33 * ACF(3 * l)) \div 183

\* C24: the first analysis step after construction or reset sets the
\* accumulator to the instantaneous scores; every later step sets
\* accumulator'[k] to the maximum over the 24 previous states p of
\* accumulator[p] + transition(p, k), plus instScore[k], transition being
\* +stayBias for p = k, +neighborBonus when k is the relative major or minor
\* of p or a fourth or fifth away in the same mode, -transitionPenalty
\* otherwise; vitCurrent is the lowest index holding the maximum.
C24_ViterbiRecurrence ==
    LET sameMode(p, k) == (p >= 12) = (k >= 12)
        interval(p, k) == ((k % 12) - (p % 12) + 12) % 12
        relative(p, k) == ~sameMode(p, k)
                          /\ interval(p, k) = (IF p < 12 THEN 9 ELSE 3)
        fourthOrFifth(p, k) == sameMode(p, k) /\ interval(p, k) \in {5, 7}
        transition(p, k) == IF p = k THEN stayBias
                            ELSE IF relative(p, k) \/ fourthOrFifth(p, k)
                                 THEN neighborBonus
                                 ELSE -transitionPenalty
        cands(k) == {kdHist.viterbiBefore[p + 1] + transition(p, k) : p \in 0 .. 23}
        top(S) == CHOOSE m \in S : \A x \in S : x <= m
        accTop == top({kd.viterbi[k + 1] : k \in 0 .. 23})
    IN kdHist.leadKey # -1 =>
         /\ \A k \in 0 .. 23 :
               kd.viterbi[k + 1] =
                  IF ~kdHist.vitInitBefore THEN kd.instScore[k + 1]
                  ELSE top(cands(k)) + kd.instScore[k + 1]
         /\ kd.vitCurrent \in 0 .. 23
         /\ kd.viterbi[kd.vitCurrent + 1] = accTop
         /\ \A k \in 0 .. 23 : k < kd.vitCurrent => kd.viterbi[k + 1] < accTop

\* a later step has moved the accumulator argmax to a state other than 0
C24_LaterStepTaken ==
    /\ kdHist.leadKey # -1
    /\ kdHist.vitInitBefore
    /\ kd.vitCurrent > 0
    /\ kd.viterbi # kd.instScore

\* C25: the confidence of a published result is the margin, best minus
\* second-best of the 24 instantaneous scores with the coherence bonus on
\* the accumulator argmax, clamped to [0, 1], whatever the sign of the
\* second-best score.
C25_ConfidenceIsClampedMargin ==
    kdHist.step.published =>
        kdHist.step.cb[1].confidence =
            clamp01(kdHist.step.sBest - kdHist.step.sSecond)

\* C29: while every frame analysed since construction or the last reset is
\* all-zero, no key event is published and getLast() keeps keyIndex -1.
C29_SilenceNeverPublishes ==
    kdHist.silent
        => /\ kdHist.pubsSinceReset = 0
           /\ kd.lastResult.keyIndex = -1

----------------------------------------------------------------------------
(* LiveAnalyzer::computeBpmAndPublish from the tempo found to the callback. *)
(* BPM values are in units of 1 / BpmScale.  la holds the settings and the  *)
(* stabiliser, io what the callback received.                               *)

TempoMaxPicks == 9             \* tempo publications of one analyzer
RecentSize    == 8             \* std::array<double, 8> recentBpm
OctaveLow     == 80 * BpmScale
OctaveHigh    == 160 * BpmScale
LaBpmSmoothing == 70           \* Settings::bpmSmoothing = 0.7f, in percent

\* Settings{minBPM, maxBPM}: the defaults, a range below 160 and a range
\* above 80, all with 0 < minBPM <= maxBPM
TempoSettings ==
    {[minBPM |-> 60 * BpmScale, maxBPM |-> 200 * BpmScale],
     [minBPM |-> 60 * BpmScale, maxBPM |-> 100 * BpmScale],
     [minBPM |-> 170 * BpmScale, maxBPM |-> 200 * BpmScale]}

\* 60 / period for the periods the search and its interpolation come up with
RawBpms == {70 * BpmScale, 120 * BpmScale, 180 * BpmScale}

\* the stabiliser of a constructed analyzer
LA_tempoState(settings) ==
    [settings    |-> settings,
     recentBpm   |-> [i \in 1 .. RecentSize |-> 0],
     recentWrite |-> 0,
     recentCount |-> 0,
     bpmEMA      |-> 0]

\* jlimit(minBPM, maxBPM, rawBpm); if (bpm < 80) bpm *= 2;
\* else if (bpm > 160) bpm *= 0.5
LA_clampOctave(settings, rawBpm) ==
    LET bpm == Max2(settings.minBPM, Min2(settings.maxBPM, rawBpm))
    IN IF bpm < OctaveLow THEN bpm * 2
       ELSE IF bpm > OctaveHigh THEN bpm \div 2
       ELSE bpm

\* the median of the first recentCount entries; the mean of the middle two
\* for an even count
LA_median(recentBpm, recentCount) ==
    LET tmp == SortAsc(SubSeq(recentBpm, 1, recentCount))
        mid == tmp[(recentCount \div 2) + 1]
    IN IF recentCount % 2 = 0 THEN (mid + tmp[recentCount \div 2]) \div 2
       ELSE mid

\* computeBpmAndPublish from "Convert to BPM and clamp" on; out is the value
\* handed to onBpm
LA_publishBpm(l, rawBpm) ==
    LET bpm    == LA_clampOctave(l.settings, rawBpm)
        recent == [l.recentBpm EXCEPT ![l.recentWrite + 1] = bpm]
        count  == IF l.recentCount < RecentSize THEN l.recentCount + 1
                  ELSE l.recentCount
        med    == LA_median(recent, count)
        ema0   == IF l.bpmEMA <= 0 THEN med ELSE l.bpmEMA
        ema    == (LaBpmSmoothing * ema0 + (100 - LaBpmSmoothing) * med) \div 100
    IN [l   |-> [l EXCEPT !.recentBpm = recent,
                          !.recentWrite = (l.recentWrite + 1) % RecentSize,
                          !.recentCount = count,
                          !.bpmEMA = ema],
        out |-> ema]

\* an analyzer constructed with one of the settings
TempoInit ==
    /\ \E st \in TempoSettings : la = LA_tempoState(st)
    /\ io = [calls |-> 0, bpm |-> 0]
    /\ kd = 0 /\ now = 0 /\ kdHist = 0 /\ fed = 0 /\ ticks = 0
    /\ bp = 0 /\ bpHist = 0 /\ twin = 0 /\ tape = 0 /\ race = 0
    /\ ring = 0 /\ app = 0 /\ snap = 0

\* computeBpmAndPublish finding a tempo: onBpm(bpmEMA, conf)
TempoPublish ==
    \E rawBpm \in RawBpms :
        /\ io.calls < TempoMaxPicks
        /\ \E r \in {LA_publishBpm(la, rawBpm)} :
              /\ la' = r.l
              /\ io' = [calls |-> io.calls + 1, bpm |-> r.out]
        /\ UNCHANGED <<kd, now, kdHist, fed, ticks, bp, bpHist, twin, tape,
                       race, ring, app, snap>>

SpecTempo == TempoInit /\ [][TempoPublish]_vars

\* C27: with 0 < minBPM <= maxBPM in the Settings, every BPM handed to the
\* bpm callback lies in [minBPM, maxBPM].
C27_CallbackBpmInRange ==
    io.calls > 0 =>
        /\ io.bpm >= la.settings.minBPM
        /\ io.bpm <= la.settings.maxBPM

----------------------------------------------------------------------------
(* Peak refinement in KeyDetector::computePeaksAndHpcp.  Magnitudes are in  *)
(* units of 1 / PeakLevels of the frame's largest, offsets in units of      *)
(* 1 / BinScale of a bin.  io holds the latest peak and its offset.         *)

PeakLevels == 8               \* magnitudes 0, 1/8, ..., 1 after normalisation
BinScale   == 10 * 100        \* 1 bin
Mags       == 0 .. PeakLevels

\* x / y as C++ divides: towards zero
CDiv(x, y) ==
    IF (x >= 0) = (y > 0) THEN (IF x >= 0 THEN x ELSE -x) \div (IF y > 0 THEN y ELSE -y)
    ELSE -((IF x >= 0 THEN x ELSE -x) \div (IF y > 0 THEN y ELSE -y))

\* denom = max(1e-12f, 2 * (m1 - 2 * m0 + m2));
\* delta = jlimit(-0.5f, 0.5f, (m1 - m2) / denom).  1e-12 is far below one
\* magnitude unit: a quotient over it is beyond the limits unless m1 = m2.
KD_peakDelta(m0, m1, m2) ==
    LET curv == 2 * (m1 - 2 * m0 + m2)
    IN IF curv > 0
       THEN jlimit(-(BinScale \div 2), BinScale \div 2, CDiv((m1 - m2) * BinScale, curv))
       ELSE IF m1 > m2 THEN BinScale \div 2
       ELSE IF m1 < m2 THEN -(BinScale \div 2)
       ELSE 0

\* no peak refined yet
PeakInit ==
    /\ io = [peaks |-> 0, m0 |-> 0, m1 |-> 0, m2 |-> 0, delta |-> 0]
    /\ kd = 0 /\ now = 0 /\ kdHist = 0 /\ fed = 0 /\ ticks = 0
    /\ bp = 0 /\ bpHist = 0 /\ twin = 0 /\ tape = 0 /\ race = 0
    /\ ring = 0 /\ app = 0 /\ snap = 0 /\ la = 0

\* one pass of the peak loop at a bin that is a peak: m0 is not below the
\* threshold (10^(-36/20), less than one magnitude unit) and is above its
\* neighbours at distance 1 (m1 left, m2 right) and at distance 2
PeakRefine ==
    \E m0, m1, m2 \in Mags :
        /\ m0 >= 1
        /\ m0 > m1 /\ m0 > m2
        /\ \E o1, o2 \in Mags : m0 > o1 /\ m0 > o2
        /\ io' = [peaks |-> 1, m0 |-> m0, m1 |-> m1, m2 |-> m2,
                  delta |-> KD_peakDelta(m0, m1, m2)]
        /\ UNCHANGED <<kd, now, kdHist, fed, ticks, bp, bpHist, twin, tape,
                       race, ring, app, snap, la>>

SpecPeak == PeakInit /\ [][PeakRefine]_vars

\* C28: for a strict local maximum m0 with neighbours m1 (left) and m2
\* (right) the bin offset is 0.5 (m1 - m2) / (m1 - 2 m0 + m2), to the
\* resolution of the offset: 0 for m1 = m2, positive exactly when m2 > m1,
\* negative exactly when m1 > m2, and of magnitude below 0.5.
C28_OffsetIsParabolaVertex ==
    io.peaks > 0 =>
        LET curv  == io.m1 - 2 * io.m0 + io.m2
            exact == CDiv((BinScale \div 2) * (io.m1 - io.m2), curv)
        IN /\ io.delta = exact
           /\ (io.m1 = io.m2) => io.delta = 0
           /\ (io.delta > 0) <=> (io.m2 > io.m1)
           /\ (io.delta < 0) <=> (io.m1 > io.m2)
           /\ io.delta < BinScale \div 2
           /\ io.delta > -(BinScale \div 2)

\* C30: with one producer and one consumer, under every interleaving of
\* pushPlanarToMono and pop, the number of unread samples (write index minus
\* read index) is between 0 and capacity - 1, the producer never writes a
\* slot holding a sample the consumer has not finished reading, and every
\* push accounts for all its samples: what it returned plus what it added
\* to the dropped counter is numSamples.
C30_OccupancyBelowCapacity ==
    LET unreadSlots == {RingSlot(ring.read + k) :
                           k \in 0 .. RingDiff(ring.write, ring.read) - 1}
        beingRead   == IF ring.cons.pc = "loop"
                       THEN {RingSlot(ring.cons.r + k) :
                                k \in ring.cons.i .. ring.cons.toRead - 1}
                       ELSE {}
    IN /\ RingDiff(ring.write, ring.read) \in 0 .. RingCapacity - 1
       /\ (ring.prod.pc = "loop") =>
             \A i \in ring.prod.i .. ring.prod.toWrite - 1 :
                RingSlot(ring.prod.w + i) \notin unreadSlots \cup beingRead
       /\ (ring.prod.pc = "idle") =>
             ring.dropped + Len(ring.accepted) = ring.offered

\* the producer is about to write into a buffer that has wrapped, after a
\* push that had to drop, while the consumer is in the middle of a pop
C30_WritingWhileReading ==
    /\ ring.prod.pc = "loop" /\ ring.prod.i < ring.prod.toWrite
    /\ ring.cons.pc = "loop" /\ ring.cons.i < ring.cons.toRead
    /\ ring.dropped > 0
    /\ ring.prod.w + ring.prod.toWrite > RingCapacity

----------------------------------------------------------------------------
(* Publication gates (KeyDetector::maybePublish) *)

\* the latest analysis step, as seen from outside
StepDwellOK  == kdHist.step.leadMs >= dwellRequiredMs
StepMarginOK == kdHist.step.sBest - kdHist.step.sSecond >= marginRequired
StepRateOK   == kdHist.step.sincePrevMs < 0
                \/ kdHist.step.sincePrevMs >= publishMinIntervalMs

\* C1: a key result is published (lastResult stored, lastPublishMs updated,
\* callback invoked) at an analysis step only if at that step the leading
\* candidate has led for at least dwellRequiredSec, best minus second-best
\* score is at least marginRequired and at least publishMinIntervalSec has
\* passed since the previous publication; if a gate fails nothing is stored
\* and no callback is made.
C1_PublishedOnlyThroughGates ==
    (kdHist.step.published \/ kdHist.step.stored)
        => (StepDwellOK /\ StepMarginOK /\ StepRateOK)

\* C2: while the leading candidate stays the same key K, exactly one key
\* event for K is published: never a second one during the same lead.
C2_OneEventPerLead == kdHist.pubsInLead <= 1

\* C3: a key event is published only at a step whose leading candidate has
\* led without interruption for at least dwellRequiredSec, whatever the
\* margin: while the leader changes faster than that, nothing is published.
C3_NoEventBeforeDwell ==
    kdHist.step.published => kdHist.step.leadMs >= dwellRequiredMs

\* C3 witness, alternation: the leader has changed, the new leader has a
\* sufficient margin and the rate gate is open, and the step published
\* nothing because the new leader has not led for dwellRequiredSec
C3_ChatterSuppressed ==
    /\ kdHist.leadChanges >= 1
    /\ kdHist.step # NoEvent
    /\ ~kdHist.step.published
    /\ kdHist.step.leadMs < dwellRequiredMs
    /\ KD_margin(kdHist.step.sBest, kdHist.step.sSecond) >= marginRequired
    /\ now >= publishMinIntervalMs
    /\ kdHist.pubsSinceReset = 0

\* C9: a published key event has keyIndex in 0..11, isMinor exactly when the
\* winning state is one of 12..23, and confidence in [0, 1]; getLast() has
\* keyIndex -1 only if nothing was published since construction or reset.
C9_EventWellFormed ==
    /\ kdHist.step.published =>
          LET r == kdHist.step.cb[1]
          IN /\ r.keyIndex \in 0 .. 11
             /\ r.isMinor = (kdHist.step.best \in 12 .. 23)
             /\ r.confidence >= 0 /\ r.confidence <= ScoreScale
             /\ kd.lastResult = r
    /\ kd.lastResult.keyIndex \in -1 .. 11
    /\ kd.lastResult.confidence >= 0 /\ kd.lastResult.confidence <= ScoreScale
    /\ kd.lastResult.keyIndex = -1 => kdHist.pubsSinceReset = 0

\* C9 witness: a minor key has just been published
C9_MinorPublished ==
    /\ kdHist.step.published
    /\ kdHist.step.cb[1].isMinor
    /\ kd.lastResult.keyIndex >= 0

====
